---- MODULE Spec2Model ----
(***************************************************************************)
(* A state-machine model of src/server/app.py, the backend of the          *)
(* face-recognition attendance platform.                                   *)
(*                                                                         *)
(* Time is counted in whole seconds from 00:00:00 of day 0, which is a     *)
(* Monday.  The tables of the external store are variables: a table whose  *)
(* rows can repeat is a bag of rows, a table with a unique key is a set or *)
(* a function.  A timestamp without a zone is read by the store in the     *)
(* zone of get_system_time, and the store's own clock agrees with it.      *)
(*                                                                         *)
(* The mail relay accepts or refuses what send_email hands to it; what it  *)
(* accepted is the bag outbox.  The signed links of the campaigns are      *)
(* dated by the clock of the host, real_time.  Calls to the store succeed. *)
(* Each part of the program has a specification of its own over the same   *)
(* variables.                                                              *)
(***************************************************************************)
EXTENDS Integers, Sequences, FiniteSets, Bags, TLC

VARIABLES
    now,                 \* the value get_system_time() returns at this instant
    class_timetable,     \* table class_timetable, in the order the store returns it
    students,            \* table students: id -> [module_code, email]
    attendance_records,  \* table attendance_records: a bag of rows
    req,                 \* the mark-attendance requests in flight or answered
    ok_marks,            \* history: (student, module, date) answered 200
    poll,                \* the locals of the last get-current-class request
    lecture_schedules,   \* table lecture_schedules, unique on (module_id, lecture_date)
    backfill_log,        \* history: the last two runs of backfill_missed_attendance
    at_risk_warnings,    \* table at_risk_warnings: a bag of rows
    outbox,              \* the messages the mail relay accepted: a bag
    risk_call,           \* history: the last call of check_and_send_at_risk_warning
    real_time,           \* the clock of the host, in seconds from the dispatch of the campaigns
    campaigns,           \* table campaigns: id -> row
    campaign_questions,  \* table campaign_questions: a set of rows with unique ids
    campaign_participants, \* table campaign_participants: a bag of rows
    campaign_responses,  \* table campaign_responses: a bag of rows
    vouchers,            \* table vouchers: a bag of rows
    campaign_call,       \* history: the last request with a campaign token
    campaign_read,       \* history: the campaign that request was answered with, if any
    submitted,           \* history: the links a submit was made with while they decoded
    pick_call,           \* history: the last pick-winners request
    picks,               \* how many pick-winners requests were made
    weekly_run,          \* history: the last run of send_weekly_summary_emails
    system_settings,     \* table system_settings: the row with id 1
    system_time_settings, \* the cache of get_system_time in the memory of the process
    time_set,            \* history: the last POST /api/system-time that was let in
    time_call,           \* history: the last call of get_system_time
    route_call,          \* history: the last request to a route that wants a bearer
    registration,        \* the locals of the last complete-registration request
    embedding,           \* column embedding of table students: id -> master embedding
    apology_submissions, \* table apology_submissions: the rows, the i-th with id i
    last_run_times,      \* the markers of the scheduler in the memory of the process
    job_runs,            \* history: the last tick of the scheduler and the weekly triggers
    question_options,    \* table question_options: a set of rows
    create_call,         \* history: the last create-campaign request
    register,            \* the locals of the last register request
    auth_users,          \* the identities of the auth service: a set of user ids
    catchup_call,        \* history: the last backfill-all-students request
    check_call,          \* history: the last run-at-risk-check request
    submit_req,          \* the submit-campaign-response requests in flight or answered
    stranded             \* history: the (campaign, student) whose response insert raised

\* the tables of the timetable, the students and the lecture schedules
tables == <<class_timetable, students, lecture_schedules>>

\* the variables of each part of the program
marking == <<req, ok_marks, poll>>
backfilling == <<backfill_log>>
warning == <<at_risk_warnings, outbox, risk_call>>
answering == <<campaign_participants, campaign_responses, campaign_call, campaign_read,
              submitted>>
drawing == <<vouchers, pick_call, picks>>
campaigning == <<real_time, campaigns, campaign_questions, answering, drawing>>

summarising == <<weekly_run>>
timing == <<system_settings, system_time_settings, time_set, time_call>>
routing == <<route_call>>
registering == <<registration, embedding>>
apologising == <<apology_submissions>>
scheduling == <<last_run_times, job_runs>>
creating == <<question_options, create_call>>
signing == <<register, auth_users>>
administering == <<catchup_call, check_call>>
submitting == <<submit_req, stranded>>

\* the parts whose variables the operations on attendance, warnings, campaigns
\* and summaries neither read nor write
apart == <<timing, routing, registering, apologising, scheduling, creating, signing, administering, submitting>>

\* the variables each part neither reads nor writes
outsideAttendance == <<backfilling, warning, campaigning, summarising, apart>>
outsideBackfill == <<marking, warning, campaigning, summarising, apart>>
outsideWarning == <<marking, backfilling, campaigning, summarising, apart>>
outsideCampaign == <<now, tables, attendance_records, marking, backfilling,
                     at_risk_warnings, risk_call, summarising, apart>>
outsideSummary == <<marking, backfilling, at_risk_warnings, risk_call, campaigning, apart>>

vars == <<now, tables, attendance_records, marking, backfilling, warning, campaigning,
          summarising, apart>>

----------------------------------------------------------------------------
(* Bounds of the model *)

\* days 0..MaxDay are the days on which sampled instants start
MaxDay == 1

\* how many mark-attendance requests there are in one behaviour
MaxReq == 2

\* how many absent rows one student gets in a behaviour of the at-risk check
MaxAbsences == 22

\* how many pick-winners requests there are in one behaviour
MaxPicks == 2

\* the clock of the host runs over days 0..MaxHostDays
MaxHostDays == 1

\* how many captures a complete-registration request carries at most
MaxCaptures == 2

\* how many complete-registration requests there are in one behaviour
MaxRegistrations == 1

\* how many apologies are submitted in one behaviour
MaxApologies == 1

\* how many decisions on apologies are mailed in one behaviour
MaxDecisions == 1

\* how many submit-campaign-response requests are handled at the same time
MaxSubmits == 2

\* how many campaigns are created in one behaviour
MaxCampaigns == 1

\* the simulated clock is no longer set once the weekly summary was triggered
\* this many times
MaxWeeklyRuns == 3

\* how many backfill-all-students requests there are in one behaviour
MaxCatchUps == 2

\* how many run-at-risk-check requests there are in one behaviour
MaxChecks == 2

\* how many register requests there are in one behaviour
MaxRegisters == 1

\* how many passes of one retry loop a behaviour follows
MaxAttempts == 7

\* how many times the process is started again in one behaviour
MaxRestarts == 1

----------------------------------------------------------------------------
(* Dates and times *)

SecondsPerDay == 24 * 60 * 60

\* datetime.date(): the calendar day of an instant
DateOf(t) == t \div SecondsPerDay

\* datetime.time(): the time of day of an instant
TimeOf(t) == t % SecondsPerDay

\* datetime.weekday(): Monday is 0
Weekday(t) == DateOf(t) % 7

\* datetime.combine(date, time)
Combine(d, tod) == d * SecondsPerDay + tod

----------------------------------------------------------------------------
(* send_email *)

\* what the mail relay does with a message: it takes it, or the connection, the
\* login or the handing over raises
RelayOutcomes == {"sent", "refused"}

\* what a call gives its caller when an exception leaves it
Raised == "raised"

\* a faulty variant: the exception of the relay leaves send_email
send_email_unguarded(outcome) == IF outcome = "sent" THEN "True" ELSE Raised

\* send_email: the whole body is in a try, whose except returns False
send_email(outcome) == IF outcome = "sent" THEN "True" ELSE "False"

----------------------------------------------------------------------------
(* The attendance window *)

\* timedelta(minutes=30) of the attendance window
ATTENDANCE_WINDOW_MINUTES == 30

----------------------------------------------------------------------------
(* The fixed population *)

StudentIds == {"s1", "s2"}

ModuleIds == {1, 2}

\* modules.module_code of a module id
ModuleCode(m) == IF m = 1 THEN "SODM401" ELSE "ITPR301"

\* a row of class_timetable
Session(id, m, dow, start, end) ==
    [id |-> id, module_id |-> m, day_of_week |-> dow, start_time |-> start, end_time |-> end]

\* the None that get_current_class_session returns
NoSession == Session(0, 0, 0, 0, 0)

T0900 == 9 * 3600
T0930 == 9 * 3600 + 1800
T2330 == 23 * 3600 + 1800
T2345 == 23 * 3600 + 2700

\* the timetables a behaviour can start with
Timetables ==
    { <<Session(1, 1, 1, T0900, T0900 + 3600)>>,
      <<Session(1, 1, 1, T2330, T2330 + 1500)>>,
      <<Session(1, 1, 1, T2345, T2345 + 600)>>,
      <<Session(1, 1, 1, T0900, T0900 + 3600), Session(2, 2, 1, T0930, T0930 + 3600)>>,
      <<Session(1, 1, 1, T0900, T0900 + 3600), Session(2, 1, 2, T0900, T0900 + 3600)>>,
      <<Session(1, 2, 2, T2330, T2330 + 1500), Session(2, 1, 1, T0900, T0900 + 3600)>> }

\* the instants the clock is sampled at: the two ends of the window of every
\* session of the timetable and the second after it, on every day
SampleOffsets == {0, ATTENDANCE_WINDOW_MINUTES * 60, ATTENDANCE_WINDOW_MINUTES * 60 + 1}

SampleTimes ==
    { Combine(d, class_timetable[i].start_time) + off :
        d \in 0..MaxDay, i \in DOMAIN class_timetable, off \in SampleOffsets }

----------------------------------------------------------------------------
(* get_current_class_session *)

\* (datetime.combine(date, start_time) + timedelta(minutes=30)).time()
AttendanceEndTime(t, start_time) ==
    TimeOf(Combine(DateOf(t), start_time) + ATTENDANCE_WINDOW_MINUTES * 60)

\* start_time <= current_time <= attendance_end_time
WindowOpen(session, t) ==
    /\ session.start_time <= TimeOf(t)
    /\ TimeOf(t) <= AttendanceEndTime(t, session.start_time)

\* .eq('day_of_week', now.weekday() + 1)
SessionsOfDay(t) ==
    SelectSeq(class_timetable, LAMBDA s : s.day_of_week = Weekday(t) + 1)

\* a faulty variant: the first session of today, its window open or not
first_class_session(t) ==
    IF SessionsOfDay(t) = <<>> THEN NoSession ELSE Head(SessionsOfDay(t))

\* the first session of today whose window is open, or None
get_current_class_session(t) ==
    LET open == SelectSeq(SessionsOfDay(t), LAMBDA s : WindowOpen(s, t))
    IN  IF open = <<>> THEN NoSession ELSE Head(open)

----------------------------------------------------------------------------
(* GET /api/get-current-class *)

\* api_get_current_class: the session found and the time reported with it
api_get_current_class ==
    /\ poll' = [session |-> get_current_class_session(now), current_time |-> now]
    /\ UNCHANGED <<now, tables, attendance_records, req, ok_marks, outsideAttendance>>

----------------------------------------------------------------------------
(* POST /api/mark-attendance *)

\* what the camera capture of a request shows
Images == {"missing", "noface", "stranger"} \cup StudentIds

IdleReq ==
    [pc |-> "idle", student_id |-> "", module_id |-> 0, prior |-> {},
     checked |-> FALSE, after_ok |-> FALSE, had_record |-> FALSE,
     status |-> 0, inserted |-> 0, image |-> "", window_open |-> FALSE]

\* the request is answered: only the answer and what was observed are kept
Answer(r, code, rows) ==
    [req EXCEPT ![r].pc = "done", ![r].status = code, ![r].inserted = rows,
                ![r].student_id = "", ![r].module_id = 0, ![r].prior = {}]

\* the rows of a table (a bag) that a filter selects, with their copies
RowsWhere(table, Filter(_)) ==
    [row \in { x \in BagToSet(table) : Filter(x) } |-> table[row]]

\* count='exact' of .eq('student_id', s).eq('module_id', m).gte('created_at', since)
ExistingRecordCount(s, m, since) ==
    BagCardinality(RowsWhere(attendance_records,
        LAMBDA x : x.student_id = s /\ x.module_id = m /\ x.created_at >= since))

\* a faulty variant: the instant itself, not the start of its day
TodayStartNoReplace(t) == t

\* get_system_time().replace(hour=0, minute=0, second=0, microsecond=0)
TodayStart(t) == Combine(DateOf(t), 0)

\* the rows of one student for one module stamped on one calendar day
RecordsOn(s, m, d) ==
    RowsWhere(attendance_records,
        LAMBDA x : x.student_id = s /\ x.module_id = m /\ DateOf(x.created_at) = d)

\* match_res.data is empty
NoMatch == ""

\* a faulty variant: a face that matches no student is taken for the nearest one
match_nearest(image) == IF image \in DOMAIN students THEN image ELSE "s1"

\* the rpc match_student with the embedding of the capture: the id of the best
\* match within the threshold, or nothing
match_student(image) == IF image \in DOMAIN students THEN image ELSE NoMatch

\* lines 1007-1030: the session check, the payload check and the face match
MarkBegin(r, image) ==
    /\ req[r].pc = "idle"
    /\ \A q \in 1..(r - 1) : req[q].pc # "idle"
    /\ LET active_class == get_current_class_session(now)
           answered ==
             IF active_class = NoSession THEN Answer(r, 403, 0)
             ELSE IF image = "missing" THEN Answer(r, 400, 0)
             ELSE IF image = "noface" THEN Answer(r, 400, 0)
             ELSE IF match_student(image) = NoMatch THEN Answer(r, 404, 0)
             ELSE [req EXCEPT ![r].pc = "check",
                              ![r].student_id = match_student(image),
                              ![r].module_id = active_class.module_id,
                              ![r].prior = { k.date : k \in { o \in ok_marks :
                                                /\ o.student_id = match_student(image)
                                                /\ o.module_id = active_class.module_id } }]
       IN  req' = [answered EXCEPT ![r].image = image,
                                   ![r].window_open = (active_class # NoSession)]
    /\ UNCHANGED <<now, tables, attendance_records, ok_marks, poll, outsideAttendance>>

\* lines 1032-1037: the pre-insert existence check
MarkCheck(r) ==
    /\ req[r].pc = "check"
    /\ LET s == req[r].student_id
           m == req[r].module_id
           seen == [req EXCEPT ![r].checked = TRUE,
                               ![r].after_ok = (DateOf(now) \in req[r].prior),
                               ![r].had_record = (RecordsOn(s, m, DateOf(now)) # EmptyBag)]
       IN  req' =
             IF ExistingRecordCount(s, m, TodayStart(now)) > 0
             THEN [seen EXCEPT ![r].pc = "done", ![r].status = 409,
                               ![r].student_id = "", ![r].module_id = 0, ![r].prior = {}]
             ELSE [seen EXCEPT ![r].pc = "insert", ![r].prior = {}]
    /\ UNCHANGED <<now, tables, attendance_records, ok_marks, poll, outsideAttendance>>

\* lines 1039-1046: the insert of the present row and the 200 answer
MarkInsert(r) ==
    /\ req[r].pc = "insert"
    /\ LET row == [student_id |-> req[r].student_id, module_id |-> req[r].module_id,
                   status |-> "present", created_at |-> now]
       IN  /\ attendance_records' = attendance_records (+) SetToBag({row})
           /\ ok_marks' = ok_marks \cup
                 {[student_id |-> row.student_id, module_id |-> row.module_id,
                   date |-> DateOf(now)]}
    /\ req' = Answer(r, 200, 1)
    /\ UNCHANGED <<now, tables, poll, outsideAttendance>>

api_mark_attendance ==
    \E r \in 1..MaxReq :
        \/ \E image \in Images : MarkBegin(r, image)
        \/ MarkCheck(r)
        \/ MarkInsert(r)

----------------------------------------------------------------------------
(* backfill_missed_attendance, run at process start *)

\* a row of lecture_schedules
Lecture(m, d) == [module_id |-> m, lecture_date |-> d]

\* a faulty variant: the stamp is the time of the run
BackfillStampToday(d) == now

\* f"{lecture_date_str}T17:00:00"
BackfillStamp(d) == Combine(d, 17 * 3600)

\* a faulty variant: no date is seen to have records
RecordsExistNever(records, m, d) == 0

\* count='exact' of the rows of a module created from T00:00:00 to T23:59:59 of a date
RecordsExistCount(records, m, d) ==
    BagCardinality(RowsWhere(records,
        LAMBDA x : /\ x.module_id = m
                   /\ x.created_at >= Combine(d, 0)
                   /\ x.created_at <= Combine(d, 23 * 3600 + 59 * 60 + 59)))

\* students .eq('module_code', module_code)
EnrolledIn(m) == { s \in DOMAIN students : students[s].module_code = ModuleCode(m) }

\* the absent rows built for every enrolled student of one lecture
AbsentRowsFor(lecture) ==
    { [student_id |-> s, module_id |-> lecture.module_id, status |-> "absent",
       created_at |-> BackfillStamp(lecture.lecture_date)] : s \in EnrolledIn(lecture.module_id) }

RECURSIVE BackfillLectures(_, _)
\* the loop over the past lectures, each seeing the rows inserted before it
BackfillLectures(lectures, records) ==
    IF lectures = {} THEN records
    ELSE LET lecture == CHOOSE l \in lectures : TRUE
             filled ==
                 IF RecordsExistCount(records, lecture.module_id, lecture.lecture_date) = 0
                 THEN records (+) SetToBag(AbsentRowsFor(lecture))
                 ELSE records
         IN  BackfillLectures(lectures \ {lecture}, filled)

\* .lt('lecture_date', today.isoformat())
PastLectures(today) == { l \in lecture_schedules : l.lecture_date < today }

\* one whole run; at most two runs are made without another step in between
backfill_missed_attendance ==
    /\ IF Len(backfill_log) < 2 THEN TRUE
       ELSE ~ ( /\ backfill_log[2].before = attendance_records
                /\ backfill_log[2].date = DateOf(now) )
    /\ attendance_records' = BackfillLectures(PastLectures(DateOf(now)), attendance_records)
    /\ LET run == [date |-> DateOf(now), before |-> attendance_records,
                   after |-> attendance_records']
       IN  backfill_log' = IF backfill_log = <<>> THEN <<run>>
                           ELSE <<backfill_log[Len(backfill_log)], run>>
    /\ UNCHANGED <<now, tables, outsideBackfill>>

----------------------------------------------------------------------------
(* check_and_send_at_risk_warning *)

thresholds == <<16, 18, 21>>

\* count='exact' of the absent rows of a student in a module
AbsenceCount(s, m) ==
    BagCardinality(RowsWhere(attendance_records,
        LAMBDA x : x.student_id = s /\ x.module_id = m /\ x.status = "absent"))

\* a faulty variant: the ledger is never found to hold a row
NoExistingWarning(ledger, s, m, level) == EmptyBag

\* the rows of at_risk_warnings of a student, a module and a level
ExistingWarning(ledger, s, m, level) ==
    RowsWhere(ledger,
        LAMBDA x : x.student_id = s /\ x.module_id = m /\ x.warning_level = level)

\* the message of a level, as the relay receives it
WarningEmail(s, m, level) == [to |-> s, kind |-> "at_risk", ref |-> <<m, level>>]

WarningRow(s, m, level, total) ==
    [student_id |-> s, module_id |-> m, warning_level |-> level,
     total_absences_at_warning |-> total]

RECURSIVE WarningLoop(_, _, _, _, _, _)
\* the loop over the thresholds from the i-th one on; st holds the ledger, the
\* outbox and what the call did so far; accepted is the answer of send_email
WarningLoop(i, s, m, total, accepted, st) ==
    IF i > Len(thresholds) THEN st
    ELSE LET threshold == thresholds[i]
         IN  IF total # threshold
             THEN WarningLoop(i + 1, s, m, total, accepted, st)
             ELSE IF ExistingWarning(st.ledger, s, m, threshold) # EmptyBag
             THEN WarningLoop(i + 1, s, m, total, accepted, st)
             ELSE IF s \notin DOMAIN students
             THEN st
             ELSE WarningLoop(i + 1, s, m, total, accepted,
                      [ledger |-> IF accepted
                                  THEN st.ledger (+) SetToBag({WarningRow(s, m, threshold, total)})
                                  ELSE st.ledger,
                       outbox |-> IF accepted
                                  THEN st.outbox (+) SetToBag({WarningEmail(s, m, threshold)})
                                  ELSE st.outbox,
                       attempts |-> st.attempts \cup {threshold},
                       sent |-> IF accepted THEN st.sent \cup {threshold} ELSE st.sent])

Levels == { thresholds[i] : i \in DOMAIN thresholds }

NoCall == [made |-> FALSE, student_id |-> "", module_id |-> 0, total_absences |-> 0,
           existing |-> {}, attempts |-> {}, sent |-> {}]

\* one whole call; the mail relay accepts the message or not
check_and_send_at_risk_warning(student_id, module_id) ==
    \E accepted \in BOOLEAN :
        LET total_absences == AbsenceCount(student_id, module_id)
            done == WarningLoop(1, student_id, module_id, total_absences, accepted,
                        [ledger |-> at_risk_warnings, outbox |-> outbox,
                         attempts |-> {}, sent |-> {}])
        IN  /\ at_risk_warnings' = done.ledger
            /\ outbox' = done.outbox
            /\ risk_call' = [made |-> TRUE, student_id |-> student_id,
                             module_id |-> module_id, total_absences |-> total_absences,
                             existing |-> { level \in Levels :
                                 ExistingWarning(at_risk_warnings, student_id, module_id, level)
                                     # EmptyBag },
                             attempts |-> done.attempts, sent |-> done.sent]
            /\ UNCHANGED <<now, tables, attendance_records, outsideWarning>>

\* the module a student is enrolled in
ModuleOf(s) == CHOOSE m \in ModuleIds : ModuleCode(m) = students[s].module_code

\* the end-of-class sweep writes one more absent row for an enrolled student
mark_absent(student_id) ==
    LET module_id == ModuleOf(student_id)
        n == AbsenceCount(student_id, module_id)
    IN  /\ n < MaxAbsences
        /\ attendance_records' = attendance_records (+) SetToBag({
               [student_id |-> student_id, module_id |-> module_id, status |-> "absent",
                created_at |-> Combine(n, 17 * 3600)] })
        /\ UNCHANGED <<now, tables, warning, outsideWarning>>

----------------------------------------------------------------------------
(* Text, as the program reads it: a sequence of one-character strings *)

Digits == <<"0", "1", "2", "3", "4", "5", "6", "7", "8", "9">>

IsDigit(ch) == \E i \in DOMAIN Digits : Digits[i] = ch

DigitValue(ch) == (CHOOSE i \in DOMAIN Digits : Digits[i] = ch) - 1

RECURSIVE IntOfDigits(_)
IntOfDigits(ds) ==
    IF ds = <<>> THEN 0
    ELSE 10 * IntOfDigits(SubSeq(ds, 1, Len(ds) - 1)) + DigitValue(ds[Len(ds)])

\* what stands for the ValueError of int()
NotAnInt == 0 - 1

\* int(text) of a text of decimal digits; any other text raises ValueError
IntOf(text) ==
    IF text # <<>> /\ \A i \in DOMAIN text : IsDigit(text[i])
    THEN IntOfDigits(text) ELSE NotAnInt

RECURSIVE DigitRun(_, _)
\* the longest run of digits of a text from position i on
DigitRun(text, i) ==
    IF i <= Len(text) /\ IsDigit(text[i])
    THEN <<text[i]>> \o DigitRun(text, i + 1) ELSE <<>>

\* re.search(r'x(\d+)', text).group(1), or the empty text when nothing matches
SearchXDigits(text) ==
    LET hits == { i \in 1..(Len(text) - 1) : text[i] = "x" /\ IsDigit(text[i + 1]) }
    IN  IF hits = {} THEN <<>>
        ELSE DigitRun(text, (CHOOSE i \in hits : \A j \in hits : i <= j) + 1)

\* part in text
Contains(text, part) ==
    \E i \in 0..(Len(text) - Len(part)) : SubSeq(text, i + 1, i + Len(part)) = part

----------------------------------------------------------------------------
(* Campaigns, their questions and the signed links *)

\* the incentive of a quiz
AssignmentIncentive ==
    << "A", "s", "s", "i", "g", "n", "m", "e", "n", "t", " ", "E", "x", "t", "e", "n",
       "s", "i", "o", "n", " ", "V", "o", "u", "c", "h", "e", "r", " ", "(", "x", "5",
       " ", "W", "i", "n", "n", "e", "r", "s", ")" >>

\* the incentive of a survey
WifiIncentive ==
    << "1", "-", "M", "o", "n", "t", "h", " ", "S", "t", "a", "f", "f", " ", "W", "i",
       "F", "i", " ", "P", "a", "s", "s", " ", "(", "x", "1", " ", "W", "i", "n", "n",
       "e", "r", ")" >>

\* the incentive of a campaign row another client of the store wrote
PlainIncentive ==
    << "B", "o", "o", "k", " ", "p", "r", "i", "z", "e" >>

IncentiveOf(campaign_type) ==
    IF campaign_type = "FEEDBACK_SURVEY" THEN WifiIncentive ELSE AssignmentIncentive

Campaign(campaign_type, incentive, status) ==
    [campaign_type |-> campaign_type, incentive |-> incentive, status |-> status]

\* a question without a correct answer stores None
NoAnswer == "None"

Question(id, c, correct_answer) ==
    [id |-> id, campaign_id |-> c, correct_answer |-> correct_answer]

\* campaign_serializer.dumps at host time issued; a link whose text was
\* changed no longer carries the signature of its payload
Token(c, s, issued, signed) ==
    [campaign_id |-> c, student_id |-> s, issued |-> issued, signed |-> signed]

\* a request without a token
NoToken == Token(0, "", 0, FALSE)

TokenMaxAge == 259200

\* a faulty variant: the age of the token is not looked at
loadsNoMaxAge(token, t) == IF token.signed THEN "ok" ELSE "BadSignature"

\* campaign_serializer.loads(token, max_age=259200) at host time t
loads(token, t) ==
    IF ~token.signed THEN "BadSignature"
    ELSE IF t - token.issued > TokenMaxAge THEN "SignatureExpired"
    ELSE "ok"

\* a faulty variant: no participant row is ever found
NoExistingResponse(c, s) == EmptyBag

\* campaign_participants .eq('campaign_id', ...).eq('student_id', ...)
ExistingResponse(c, s) ==
    RowsWhere(campaign_participants, LAMBDA x : x.campaign_id = c /\ x.student_id = s)

\* the keys of the submitted answers
K1 == <<"1">>
K01 == <<"0", "1">>
K2 == <<"2">>
K3 == <<"3">>
Kq == <<"q">>

\* the bodies of `responses` a request carries; the empty one also stands for
\* a request without responses
ResponseChoices ==
    { <<>>,
      K1 :> "B",
      (K1 :> "B") @@ (K2 :> "A"),
      (K1 :> "A") @@ (K3 :> "A"),
      (K1 :> "B") @@ (K01 :> "B"),
      Kq :> "B" }

\* {q['id']: q['correct_answer'] for q in questions_res.data}
correct_answers_map(c) ==
    LET qs == { q \in campaign_questions : q.campaign_id = c }
    IN  [id \in { q.id : q \in qs } |-> (CHOOSE q \in qs : q.id = id).correct_answer]

RECURSIVE ScoreLoop(_, _, _)
\* the loop over responses.items() for the keys still to visit: the score
\* they add, or NotAnInt when int(question_id) raises
ScoreLoop(keys, responses, answers) ==
    IF keys = {} THEN 0
    ELSE LET question_id == CHOOSE k \in keys : TRUE
             student_answer == responses[question_id]
             id == IntOf(question_id)
             correct_answer == IF id \in DOMAIN answers THEN answers[id] ELSE NoAnswer
             rest == ScoreLoop(keys \ {question_id}, responses, answers)
         IN  IF id = NotAnInt \/ rest = NotAnInt THEN NotAnInt
             ELSE IF correct_answer \notin {NoAnswer, ""} /\ student_answer = correct_answer
             THEN rest + 1
             ELSE rest

\* score = None
NoScore == 0 - 2

NoCampaignCall ==
    [endpoint |-> "", token |-> NoToken, age |-> 0, filled |-> FALSE, keys_ok |-> TRUE,
     quiz |-> FALSE, repeat |-> FALSE, had_row |-> FALSE, rows_before |-> <<0, 0>>,
     status |-> 0, error |-> ""]

\* the answer of a request with a link, and what is remembered of the request:
\* the age of the token, whether responses were sent and their keys are
\* numbers, whether the campaign is a quiz, whether a submit was made with the
\* link before, whether a participant row existed, and the sizes of the tables
CampaignAnswer(endpoint, token, responses, status, error) ==
    [endpoint |-> endpoint, token |-> token, age |-> real_time - token.issued,
     filled |-> responses # <<>>,
     keys_ok |-> \A key \in DOMAIN responses : IntOf(key) # NotAnInt,
     quiz |-> /\ token.campaign_id \in DOMAIN campaigns
              /\ campaigns[token.campaign_id].campaign_type = "WEEKLY_QUIZ",
     repeat |-> <<token.campaign_id, token.student_id>> \in submitted,
     had_row |-> RowsWhere(campaign_participants,
                     LAMBDA x : /\ x.campaign_id = token.campaign_id
                                /\ x.student_id = token.student_id) # EmptyBag,
     rows_before |-> <<BagCardinality(campaign_participants),
                       BagCardinality(campaign_responses)>>,
     status |-> status, error |-> error]

----------------------------------------------------------------------------
(* POST /api/get-campaign-for-student *)

\* the campaign with its questions, as the rows of the store hold them
campaign_payload(c, questions) ==
    [campaign |-> campaigns[c],
     campaign_questions |-> { q \in questions : q.campaign_id = c }]

\* an answer without a campaign
NoPayload == [campaign |-> Campaign("", <<>>, ""), campaign_questions |-> {}]

api_get_campaign_for_student(token) ==
    /\ campaign_read' =
          IF token = NoToken THEN NoPayload
          ELSE IF loads(token, real_time) # "ok" THEN NoPayload
          ELSE IF ExistingResponse(token.campaign_id, token.student_id) # EmptyBag
          THEN NoPayload
          ELSE IF token.campaign_id \notin DOMAIN campaigns THEN NoPayload
          ELSE campaign_payload(token.campaign_id, campaign_questions)
    /\ campaign_call' =
          IF token = NoToken
          THEN CampaignAnswer("get", token, <<>>, 400, "token_missing")
          ELSE IF loads(token, real_time) # "ok"
          THEN CampaignAnswer("get", token, <<>>, 400, "link_invalid_or_expired")
          ELSE IF ExistingResponse(token.campaign_id, token.student_id) # EmptyBag
          THEN CampaignAnswer("get", token, <<>>, 409, "already_responded")
          ELSE IF token.campaign_id \notin DOMAIN campaigns
          THEN CampaignAnswer("get", token, <<>>, 400, "link_invalid_or_expired")
          ELSE CampaignAnswer("get", token, <<>>, 200, "")
    /\ UNCHANGED <<real_time, campaigns, campaign_questions, campaign_participants,
                   campaign_responses, submitted, drawing, outbox, outsideCampaign>>

----------------------------------------------------------------------------
(* POST /api/submit-campaign-response *)

\* the score of a quiz, None for any other campaign
ScoreOf(c, responses) ==
    IF campaigns[c].campaign_type = "WEEKLY_QUIZ"
    THEN ScoreLoop(DOMAIN responses, responses, correct_answers_map(c))
    ELSE NoScore

api_submit_campaign_response(token, responses) ==
    LET c == token.campaign_id
        s == token.student_id
        refused(status, error) ==
            /\ campaign_call' = CampaignAnswer("submit", token, responses, status, error)
            /\ UNCHANGED <<campaign_participants, campaign_responses>>
    IN  /\ IF token = NoToken \/ responses = <<>>
           THEN refused(400, "invalid_submission")
           ELSE IF loads(token, real_time) # "ok"
           THEN refused(500, "link_may_have_expired")
           ELSE IF ExistingResponse(c, s) # EmptyBag
           THEN refused(409, "already_submitted")
           ELSE IF c \notin DOMAIN campaigns
           THEN refused(500, "link_may_have_expired")
           ELSE IF ScoreOf(c, responses) = NotAnInt
           THEN refused(500, "link_may_have_expired")
           ELSE /\ campaign_participants' = campaign_participants (+)
                       SetToBag({[campaign_id |-> c, student_id |-> s]})
                /\ campaign_responses' = campaign_responses (+)
                       SetToBag({[campaign_id |-> c, student_id |-> s,
                                  response_data |-> responses,
                                  score |-> ScoreOf(c, responses)]})
                /\ campaign_call' = CampaignAnswer("submit", token, responses, 201, "")
        /\ submitted' = IF token # NoToken /\ loads(token, real_time) = "ok"
                        THEN submitted \cup {<<c, s>>} ELSE submitted
        /\ campaign_read' = NoPayload
        /\ UNCHANGED <<real_time, campaigns, campaign_questions, drawing, outbox,
                       outsideCampaign>>

----------------------------------------------------------------------------
(* POST /api/submit-campaign-response, statement by statement: the requests *)
(* are served in threads, and an insert into the store can raise            *)

outsideSubmit ==
    <<real_time, campaigns, campaign_questions, campaign_call, campaign_read, submitted,
      drawing, outbox, now, tables, attendance_records, marking, backfilling,
      at_risk_warnings, risk_call, summarising, timing, routing, registering, apologising,
      scheduling, creating, signing, administering>>

\* a request that was not received yet
NoSubmit ==
    [pc |-> "idle", token |-> NoToken, responses |-> <<>>, score |-> NoScore,
     status |-> 0, after_stranded |-> FALSE, fresh |-> FALSE]

\* what an insert into the store does
InsertOutcomes == {"stored", "raises"}

\* from the start of the handler to the lookups before the first insert
SubmitBegin(r, token, responses) ==
    LET c == token.campaign_id
        s == token.student_id
        received == [NoSubmit EXCEPT !.token = token, !.responses = responses,
                        !.after_stranded = (<<c, s>> \in stranded),
                        !.fresh = (token # NoToken /\ loads(token, real_time) = "ok")]
        answered(status) == [received EXCEPT !.pc = "done", !.status = status]
    IN  /\ submit_req[r].pc = "idle"
        /\ submit_req' = [submit_req EXCEPT ![r] =
               IF token = NoToken \/ responses = <<>> THEN answered(400)
               ELSE IF loads(token, real_time) # "ok" THEN answered(500)
               ELSE IF ExistingResponse(c, s) # EmptyBag THEN answered(409)
               ELSE IF c \notin DOMAIN campaigns THEN answered(500)
               ELSE IF ScoreOf(c, responses) = NotAnInt THEN answered(500)
               ELSE [received EXCEPT !.pc = "participant",
                                     !.score = ScoreOf(c, responses)]]
        /\ UNCHANGED <<campaign_participants, campaign_responses, stranded, outsideSubmit>>

\* campaign_participants.insert(...).execute()
SubmitParticipant(r, outcome) ==
    /\ submit_req[r].pc = "participant"
    /\ IF outcome = "stored"
       THEN /\ campaign_participants' = campaign_participants (+)
                   SetToBag({[campaign_id |-> submit_req[r].token.campaign_id,
                              student_id |-> submit_req[r].token.student_id]})
            /\ submit_req' = [submit_req EXCEPT ![r].pc = "response"]
       ELSE /\ submit_req' = [submit_req EXCEPT ![r].pc = "done", ![r].status = 500]
            /\ UNCHANGED campaign_participants
    /\ UNCHANGED <<campaign_responses, stranded, outsideSubmit>>

\* campaign_responses.insert(...).execute(), and the handler of the exception,
\* which answers and undoes nothing
SubmitResponse(r, outcome) ==
    LET c == submit_req[r].token.campaign_id
        s == submit_req[r].token.student_id
    IN  /\ submit_req[r].pc = "response"
        /\ IF outcome = "stored"
           THEN /\ campaign_responses' = campaign_responses (+)
                       SetToBag({[campaign_id |-> c, student_id |-> s,
                                  response_data |-> submit_req[r].responses,
                                  score |-> submit_req[r].score]})
                /\ submit_req' = [submit_req EXCEPT ![r].pc = "done", ![r].status = 201]
                /\ UNCHANGED stranded
           ELSE /\ submit_req' = [submit_req EXCEPT ![r].pc = "done", ![r].status = 500]
                /\ stranded' = stranded \cup {<<c, s>>}
                /\ UNCHANGED campaign_responses
        /\ UNCHANGED <<campaign_participants, outsideSubmit>>

\* the clock of the host runs on to the next instant around the expiry of the links
RealSamples == {0, TokenMaxAge, TokenMaxAge + 1}

AdvanceRealTime ==
    /\ LET later == { t \in RealSamples : t > real_time }
       IN  /\ later # {}
           /\ real_time' = CHOOSE t \in later : \A u \in later : t <= u
    /\ UNCHANGED <<campaigns, campaign_questions, answering, drawing, outbox,
                   outsideCampaign>>

----------------------------------------------------------------------------
(* POST /api/pick-winners, called by the lecturer who owns the campaign *)

\* a faulty variant: one winner whatever the text names
NumWinnersOne(incentive) == 1

\* int(re.search(r'x(\d+)', incentive).group(1)) if there is a match, else 1
NumWinners(incentive) ==
    IF SearchXDigits(incentive) # <<>> THEN IntOf(SearchXDigits(incentive)) ELSE 1

VoucherType(incentive) ==
    IF Contains(incentive, << "A", "s", "s", "i", "g", "n", "m", "e", "n", "t", " ", "E", "x", "t", "e", "n", "s", "i", "o", "n" >>)
    THEN "Assignment Extension"
    ELSE IF Contains(incentive, << "W", "i", "F", "i", " ", "P", "a", "s", "s" >>)
    THEN "Staff WiFi Pass"
    ELSE "Generic Prize"

\* the bag of the rows F(x) for the rows x of a bag, F being one-to-one on them
BagImage(B, F(_)) ==
    LET S == BagToSet(B)
    IN  [y \in { F(x) : x \in S } |-> B[CHOOSE x \in S : F(x) = y]]

VoucherRow(student_id, campaign_id, voucher_type, today) ==
    [student_id |-> student_id, campaign_id |-> campaign_id,
     voucher_type |-> voucher_type, expires_on |-> today + 30]

WinnerEmail(student_id, campaign_id) ==
    [to |-> student_id, kind |-> "winner", ref |-> <<campaign_id>>]

NoPick ==
    [made |-> FALSE, campaign_id |-> 0, participants |-> EmptyBag, winners |-> EmptyBag,
     status |-> 0, vouchers_before |-> EmptyBag, status_before |-> "", relay |-> "none"]

api_pick_winners(campaign_id) ==
    /\ picks < MaxPicks
    /\ picks' = picks + 1
    /\ campaign_id \in DOMAIN campaigns
    /\ LET campaign == campaigns[campaign_id]
           participants ==
               RowsWhere(campaign_participants, LAMBDA x : x.campaign_id = campaign_id)
           num_winners == NumWinners(campaign.incentive)
           answer(status, winners, relay) ==
               [made |-> TRUE, campaign_id |-> campaign_id, participants |-> participants,
                winners |-> winners, status |-> status, vouchers_before |-> vouchers,
                status_before |-> campaign.status, relay |-> relay]
           refused ==
               /\ pick_call' = answer(400, EmptyBag, "none")
               /\ UNCHANGED <<vouchers, campaigns, outbox>>
       IN  IF participants = EmptyBag
           THEN refused
           ELSE IF BagCardinality(participants) < num_winners
           THEN refused
           ELSE \E winners \in SubBag(participants), outcome \in RelayOutcomes :
                   /\ BagCardinality(winners) = num_winners
                   /\ IF send_email(outcome) = Raised
                      THEN /\ pick_call' = answer(500, winners, outcome)
                           /\ UNCHANGED <<vouchers, campaigns, outbox>>
                      ELSE /\ outbox' = IF send_email(outcome) = "True"
                                        THEN outbox (+) BagImage(winners,
                                                 LAMBDA w : WinnerEmail(w.student_id, campaign_id))
                                        ELSE outbox
                           /\ vouchers' = vouchers (+) BagImage(winners,
                                  LAMBDA w : VoucherRow(w.student_id, campaign_id,
                                                 VoucherType(campaign.incentive), DateOf(now)))
                           /\ campaigns' = [campaigns EXCEPT ![campaign_id].status = "COMPLETED"]
                           /\ pick_call' = answer(200, winners, outcome)
    /\ UNCHANGED <<real_time, campaign_questions, answering, outsideCampaign>>

----------------------------------------------------------------------------
(* send_weekly_summary_emails *)

\* today - timedelta(days=today.weekday() + 7)
start_of_last_week(t) == DateOf(t) - (Weekday(t) + 7)

\* today - timedelta(days=today.weekday() + 1)
end_of_last_week(t) == DateOf(t) - (Weekday(t) + 1)

\* count='exact' of the lectures of a module scheduled in the window
total_lectures_this_week(m, t) ==
    Cardinality({ l \in lecture_schedules :
        /\ l.module_id = m
        /\ l.lecture_date >= start_of_last_week(t)
        /\ l.lecture_date <= end_of_last_week(t) })

\* the attendance records of a module created in the window
weekly_records(m, t) ==
    RowsWhere(attendance_records,
        LAMBDA x : /\ x.module_id = m
                   /\ x.created_at >= Combine(start_of_last_week(t), 0)
                   /\ x.created_at <= Combine(end_of_last_week(t), 23 * 3600 + 59 * 60 + 59))

\* student_data[student_id]['present_count']
present_count(records, s) ==
    BagCardinality(RowsWhere(records,
        LAMBDA x : x.student_id = s /\ x.status = "present"))

\* the students in student_data whose joined details carry an address
WithEmail(records) ==
    { s \in { x.student_id : x \in BagToSet(records) } :
        s \in DOMAIN students /\ students[s].email }

perfect_attendance(m, t) ==
    IF total_lectures_this_week(m, t) = 0 THEN {}
    ELSE { s \in WithEmail(weekly_records(m, t)) :
             present_count(weekly_records(m, t), s) = total_lectures_this_week(m, t) }

zero_attendance(m, t) ==
    IF total_lectures_this_week(m, t) = 0 THEN {}
    ELSE { s \in WithEmail(weekly_records(m, t)) :
             /\ present_count(weekly_records(m, t), s) # total_lectures_this_week(m, t)
             /\ present_count(weekly_records(m, t), s) = 0 }

WeeklyEmail(s, m, kind) == [to |-> s, kind |-> kind, ref |-> <<m>>]

NoWeeklyRun ==
    [made |-> FALSE, today |-> 0, perfect |-> [m \in ModuleIds |-> {}],
     zero |-> [m \in ModuleIds |-> {}]]

\* one whole run over the modules at t, the mail relay accepting the messages or
\* not: the run and the outbox after it
send_weekly_summary_emails(t, accepted, box) ==
    [run |-> [made |-> TRUE, today |-> DateOf(t),
              perfect |-> [m \in ModuleIds |-> perfect_attendance(m, t)],
              zero |-> [m \in ModuleIds |-> zero_attendance(m, t)]],
     outbox |->
         IF accepted
         THEN box (+) SetToBag(UNION {
                  { WeeklyEmail(s, m, "weekly_perfect") : s \in perfect_attendance(m, t) }
                  \cup { WeeklyEmail(s, m, "weekly_zero") : s \in zero_attendance(m, t) } :
                  m \in ModuleIds })
         ELSE box]

\* the simulated clock runs on to the same time a week later
AdvanceWeek ==
    /\ DateOf(now) + 7 < 2 * 7
    /\ now' = now + 7 * SecondsPerDay
    /\ UNCHANGED <<tables, attendance_records, warning, summarising, outsideSummary>>

----------------------------------------------------------------------------
(* The clock *)

\* the simulated clock moves on to the next sampled instant
AdvanceTime ==
    /\ LET later == { t \in SampleTimes : t > now }
       IN  /\ later # {}
           /\ now' = CHOOSE t \in later : \A u \in later : t <= u
    /\ UNCHANGED <<tables, attendance_records, req, ok_marks, poll, outsideAttendance>>

----------------------------------------------------------------------------
(* Bearer authentication *)

\* header values, as texts of one-character strings
NoHeader == <<>>
BearerPrefix == <<"B", "e", "a", "r", "e", "r", " ">>
BearerGood == BearerPrefix \o <<"g">>
BearerOther == BearerPrefix \o <<"h">>
BearerBad == BearerPrefix \o <<"b">>
BearerBroken == BearerPrefix \o <<"e">>
BearerBare == <<"B", "e", "a", "r", "e", "r">>
BasicStudent == <<"B", "a", "s", "i", "c", " ", "s">>
BearerStudent == BearerPrefix \o <<"s">>
BearerStranger == BearerPrefix \o <<"x">>

\* str.startswith
StartsWith(text, prefix) ==
    /\ Len(text) >= Len(prefix)
    /\ SubSeq(text, 1, Len(prefix)) = prefix

\* str.split(' ')[1] of a text with a space in it
SecondField(text) ==
    LET first == CHOOSE i \in 1..Len(text) :
                     text[i] = " " /\ \A j \in 1..(i - 1) : text[j] # " "
        rest == SubSeq(text, first + 1, Len(text))
        stops == { i \in 1..Len(rest) : rest[i] = " " }
        stop == IF stops = {} THEN Len(rest) + 1
                ELSE CHOOSE i \in stops : \A j \in stops : i <= j
    IN  SubSeq(rest, 1, stop - 1)

NoUser == "no user"
Raises == "raises"

\* supabase_anon.auth.get_user: the identity of a token, no user, or an error
get_user(token) ==
    IF token = <<"g">> THEN "L1"
    ELSE IF token = <<"h">> THEN "L2"
    ELSE IF token = <<"s">> THEN "s1"
    ELSE IF token = <<"x">> THEN "u9"
    ELSE IF token = <<"b">> THEN NoUser
    ELSE Raises

\* the check of the header by the routes that want the prefix `Bearer '
BearerHeader(auth_header) ==
    auth_header # NoHeader /\ StartsWith(auth_header, BearerPrefix)

----------------------------------------------------------------------------
(* The simulated clock *)

\* an absent datetime
NoTime == 0 - 1

\* timedelta.seconds: the seconds of a span without its whole days
Seconds(span) == span % SecondsPerDay

\* the cache before the first call
NoSettings ==
    [override_enabled |-> FALSE, simulated_start_time |-> NoTime,
     real_time_at_set |-> NoTime, last_checked |-> NoTime]

\* the condition under which get_system_time reads the row again
Stale(cache, real_now) ==
    IF cache.last_checked = NoTime THEN TRUE
    ELSE Seconds(real_now - cache.last_checked) > 10

\* the cache after the row was read
Refetched(cache, row, real_now) ==
    LET changed == \/ cache.simulated_start_time # row.simulated_datetime
                   \/ cache.override_enabled # row.override_enabled
        pinned == IF changed
                  THEN [cache EXCEPT !.simulated_start_time = row.simulated_datetime,
                                     !.real_time_at_set = real_now]
                  ELSE cache
    IN  [pinned EXCEPT !.override_enabled = row.override_enabled,
                       !.last_checked = real_now]

\* the cache after the read of the row raised
FetchFailed(cache) == [cache EXCEPT !.override_enabled = FALSE]

\* the time get_system_time returns from the cache
SystemTime(cache, real_now) ==
    IF /\ cache.override_enabled
       /\ cache.simulated_start_time # NoTime
       /\ cache.real_time_at_set # NoTime
    THEN cache.simulated_start_time + (real_now - cache.real_time_at_set)
    ELSE real_now

NoTimeSet == [made |-> FALSE, at |-> 0, override_enabled |-> FALSE,
              simulated_datetime |-> NoTime]

NoTimeCall == [made |-> FALSE, at |-> 0, fetch |-> "none", failed_since_set |-> FALSE,
               returned |-> 0]

\* the variables the simulated clock neither reads nor writes
outsideTime == <<tables, attendance_records, marking, backfilling, warning, campaigns,
                 campaign_questions, answering, drawing, summarising, registering,
                 apologising, scheduling, creating, signing, administering, submitting>>

\* what one call of get_system_time does to the cache and to the histories; the
\* read of the row succeeds or raises
GetSystemTime(fetch_ok) ==
    LET real_now == real_time
        stale == Stale(system_time_settings, real_now)
        cache == IF ~ stale THEN system_time_settings
                 ELSE IF fetch_ok
                      THEN Refetched(system_time_settings, system_settings, real_now)
                      ELSE FetchFailed(system_time_settings)
        failed == stale /\ ~ fetch_ok
    IN  /\ system_time_settings' = cache
        /\ now' = SystemTime(cache, real_now)
        /\ time_call' = [made |-> TRUE, at |-> real_now,
                         fetch |-> IF ~ stale THEN "cached"
                                   ELSE IF fetch_ok THEN "ok" ELSE "failed",
                         failed_since_set |-> time_call.failed_since_set \/ failed,
                         returned |-> SystemTime(cache, real_now)]

\* a call of get_system_time by the scheduler or by a route without a bearer
get_system_time ==
    \E fetch_ok \in BOOLEAN :
        /\ GetSystemTime(fetch_ok)
        /\ UNCHANGED <<real_time, system_settings, time_set, routing, outsideTime>>

\* the simulated starts a POST can carry
SimulatedStarts == {NoTime, Combine(6, 18 * 3600)}

\* the answer of a protected route
RouteAnswer(route, auth_header, status) ==
    [route |-> route, auth_header |-> auth_header, status |-> status, module_id |-> 0,
     decision |-> <<>>]

NoRouteCall == RouteAnswer("none", NoHeader, 0)

\* GET and POST /api/system-time
api_system_time_control(method, auth_header, override_enabled, simulated_datetime) ==
    LET real_now == real_time
        let_in == IF BearerHeader(auth_header)
                  THEN get_user(SecondField(auth_header)) \notin {NoUser, Raises}
                  ELSE FALSE
    IN  IF ~ let_in
        THEN /\ route_call' = RouteAnswer("system-time", auth_header, 401)
             /\ UNCHANGED <<now, real_time, timing, outsideTime>>
        ELSE IF method = "GET"
        THEN /\ \E fetch_ok \in BOOLEAN : GetSystemTime(fetch_ok)
             /\ route_call' = RouteAnswer("system-time", auth_header, 200)
             /\ UNCHANGED <<real_time, system_settings, time_set, outsideTime>>
        ELSE /\ system_settings' = [override_enabled |-> override_enabled,
                                    simulated_datetime |-> simulated_datetime]
             /\ system_time_settings' =
                    [override_enabled |-> override_enabled,
                     simulated_start_time |->
                         IF simulated_datetime # NoTime THEN simulated_datetime
                         ELSE system_time_settings.simulated_start_time,
                     real_time_at_set |->
                         IF simulated_datetime # NoTime THEN real_now
                         ELSE system_time_settings.real_time_at_set,
                     last_checked |-> real_now]
             /\ time_set' = [made |-> TRUE, at |-> real_now,
                             override_enabled |-> override_enabled,
                             simulated_datetime |-> simulated_datetime]
             /\ time_call' = NoTimeCall
             /\ route_call' = RouteAnswer("system-time", auth_header, 200)
             /\ UNCHANGED <<now, real_time, outsideTime>>

\* the spans by which the clock of the host runs on
HostSteps == {4, 11, SecondsPerDay}

HostTick ==
    \E step \in HostSteps :
        /\ DateOf(real_time + step) <= MaxHostDays
        /\ TimeOf(real_time + step) <= 15
        /\ real_time' = real_time + step
        /\ UNCHANGED <<now, timing, routing, outsideTime>>

----------------------------------------------------------------------------
(* Completion of a registration *)

\* a number that is the quotient of two integers, in lowest terms
RECURSIVE GCD(_, _)
GCD(a, b) == IF b = 0 THEN a ELSE GCD(b, a % b)

Abs(n) == IF n < 0 THEN 0 - n ELSE n

Ratio(n, d) ==
    LET g == GCD(Abs(n), d)
    IN  <<n \div g, d \div g>>

\* the sum of the k-th components of a sequence of vectors
RECURSIVE ColumnSum(_, _)
ColumnSum(vectors, k) ==
    IF vectors = <<>> THEN 0
    ELSE Head(vectors)[k] + ColumnSum(Tail(vectors), k)

\* the length of an embedding
EmbeddingSize == 2

\* np.mean(all_embeddings, axis=0).tolist()
np_mean(vectors) ==
    [k \in 1..EmbeddingSize |-> Ratio(ColumnSum(vectors, k), Len(vectors))]

\* a capture that yields an embedding, and the captures that yield none: an image
\* that does not decode, an image without a face, data that raises
Capture(emb) == [kind |-> "face", emb |-> emb]
FailedCapture(kind) == [kind |-> kind, emb |-> <<>>]

Captures ==
    { Capture(<<1, 1>>), Capture(<<3, 3>>), Capture(<<0 - 2, 4>>),
      FailedCapture("undecodable"), FailedCapture("no_face"), FailedCapture("raises") }

\* a faulty variant: the embedding of the first capture alone
first_embedding(images_data) ==
    LET faces == SelectSeq(images_data, LAMBDA c : c.kind = "face")
    IN  IF faces = <<>> THEN <<>> ELSE <<faces[1].emb>>

\* all_embeddings after the loop over images_data
all_embeddings(images_data) ==
    LET faces == SelectSeq(images_data, LAMBDA c : c.kind = "face")
    IN  [i \in 1..Len(faces) |-> faces[i].emb]

NoEmbedding == <<>>

NoRegistration ==
    [pc |-> "idle", auth_header |-> NoHeader, user |-> NoUser, images_data |-> <<>>,
     module_code |-> "", master_embedding |-> NoEmbedding, retry_count |-> 0, status |-> 0,
     count |-> 0, attempts |-> 0]

\* the variables the completion of a registration neither reads nor writes
outsideRegistration ==
    <<now, class_timetable, lecture_schedules, attendance_records, marking, backfilling,
      warning, campaigning, summarising, timing, routing, apologising, scheduling,
      creating, signing, administering, submitting>>

\* the module codes a request can carry; the empty text is a missing one
RequestModuleCodes == {"", ModuleCode(2)}

\* POST /api/complete-registration up to the loop that writes the row
CompleteRegistrationBegin(auth_header, images_data, module_code) ==
    LET answer(status) ==
            /\ registration' = [NoRegistration EXCEPT !.pc = "done",
                                    !.auth_header = auth_header,
                                    !.images_data = images_data,
                                    !.module_code = module_code, !.status = status,
                                    !.count = registration.count + 1]
        user == IF auth_header # NoHeader /\ Contains(auth_header, <<" ">>)
                THEN get_user(SecondField(auth_header)) ELSE NoUser
        embeddings == all_embeddings(images_data)
    IN  /\ registration.pc # "update"
        /\ registration.count < MaxRegistrations
        /\ IF auth_header = NoHeader THEN answer(401)
           ELSE IF ~ Contains(auth_header, <<" ">>) THEN answer(401)
           ELSE IF user = Raises THEN answer(500)
           ELSE IF user = NoUser THEN answer(401)
           ELSE IF user \notin DOMAIN students THEN answer(404)
           ELSE IF images_data = <<>> \/ module_code = "" THEN answer(400)
           ELSE IF Len(embeddings) = 0 THEN answer(400)
           ELSE registration' = [pc |-> "update", auth_header |-> auth_header,
                                 user |-> user, images_data |-> images_data,
                                 module_code |-> module_code,
                                 master_embedding |-> np_mean(embeddings),
                                 retry_count |-> 0, status |-> 0,
                                 count |-> registration.count + 1, attempts |-> 0]
        /\ UNCHANGED <<students, embedding, outsideRegistration>>

\* one pass of the loop that writes the row: the update returns the row, returns
\* nothing, or raises
CompleteRegistrationUpdate ==
    /\ registration.pc = "update"
    /\ registration.attempts < MaxAttempts
    /\ \E outcome \in {"data", "empty", "raises"} :
        IF outcome = "data"
        THEN /\ embedding' = [embedding EXCEPT ![registration.user] =
                                  registration.master_embedding]
             /\ students' = [students EXCEPT ![registration.user].module_code =
                                 registration.module_code]
             /\ registration' = [registration EXCEPT !.pc = "done", !.status = 200,
                                                     !.attempts = @ + 1]
        ELSE IF outcome = "empty"
        THEN /\ registration' = [registration EXCEPT !.attempts = @ + 1]
             /\ UNCHANGED <<students, embedding>>
        ELSE /\ registration' =
                    IF registration.retry_count + 1 = 3
                    THEN [registration EXCEPT !.pc = "done", !.status = 500,
                                              !.retry_count = @ + 1, !.attempts = @ + 1]
                    ELSE [registration EXCEPT !.retry_count = @ + 1, !.attempts = @ + 1]
             /\ UNCHANGED <<students, embedding>>
    /\ UNCHANGED outsideRegistration

\* the request bodies: up to MaxCaptures captures
ImagesData == UNION { [1..n -> Captures] : n \in 0..MaxCaptures }

RegistrationHeaders == {NoHeader, BearerStudent}

api_student_complete_registration ==
    \/ \E auth_header \in RegistrationHeaders, images_data \in ImagesData,
          module_code \in RequestModuleCodes :
           CompleteRegistrationBegin(auth_header, images_data, module_code)
    \/ CompleteRegistrationUpdate

----------------------------------------------------------------------------
(* POST /api/register and cleanup_failed_registration *)

\* max_retries of the register handler
max_retries == 5

\* user_id before sign_up has returned a user, and the id sign_up gives
NoUserId == ""
NewUserId == "u1"

NoRegister ==
    [pc |-> "idle", user_id |-> NoUserId, retry_count |-> 0, polls |-> 0, writes |-> 0,
     status |-> 0, cleanup |-> NoUserId, cleanup_raised |-> FALSE, count |-> 0]

\* the variables the register handler neither reads nor writes
outsideRegister ==
    <<now, class_timetable, lecture_schedules, attendance_records, marking, backfilling,
      warning, campaigning, summarising, timing, routing, registering, apologising,
      scheduling, creating, administering, submitting>>

\* the row of a student as the store has it before the profile is written
BlankProfile == [module_code |-> "", email |-> TRUE]

\* table students with the row of the user added, and with it deleted
WithRow(rows, user_id) ==
    [s \in DOMAIN rows \cup {user_id} |->
        IF s \in DOMAIN rows THEN rows[s] ELSE BlankProfile]

WithoutRow(rows, user_id) == [s \in DOMAIN rows \ {user_id} |-> rows[s]]

\* what the two calls of cleanup_failed_registration can do: both delete, the
\* deletion of the user raises, the deletion of the row raises
CleanupOutcomes == {"deleted", "delete_user_raises", "delete_row_raises"}

\* a faulty variant: nothing is deleted
no_cleanup(user_id, outcome, users, rows) ==
    [auth_users |-> users, students |-> rows, raised |-> outcome # "deleted"]

\* cleanup_failed_registration(user_id): the identities and the rows it leaves;
\* an exception of either call is caught and printed
cleanup_failed_registration(user_id, outcome, users, rows) ==
    [auth_users |-> IF outcome = "delete_user_raises" THEN users
                    ELSE users \ {user_id},
     students |-> IF outcome = "deleted" THEN WithoutRow(rows, user_id) ELSE rows,
     raised |-> outcome # "deleted"]

\* what sign_up can do: return a user, return none, raise AuthApiError with
\* 'User already registered', raise another AuthApiError, raise something else
SignUpOutcomes == {"user", "no_user", "registered", "auth_error", "raises"}

\* POST /api/register up to the loop that confirms the user; the store has made
\* the row of the new user by then or has not
RegisterSignUp(outcome, row_made) ==
    LET answer(status) ==
            register' = [NoRegister EXCEPT !.pc = "done", !.status = status,
                                           !.count = register.count + 1]
    IN  /\ register.pc \in {"idle", "done"}
        /\ register.count < MaxRegisters
        /\ outcome = "user" => NewUserId \notin auth_users
        /\ IF outcome = "user"
           THEN /\ auth_users' = auth_users \cup {NewUserId}
                /\ students' = IF row_made THEN WithRow(students, NewUserId) ELSE students
                /\ register' = [NoRegister EXCEPT !.pc = "poll", !.user_id = NewUserId,
                                                  !.count = register.count + 1]
           ELSE /\ answer(CASE outcome = "no_user" -> 400
                            [] outcome = "registered" -> 409
                            [] OTHER -> 500)
                /\ UNCHANGED <<auth_users, students>>
        /\ UNCHANGED outsideRegister

\* the handler answers 500 after cleanup_failed_registration(user_id)
RegisterFails(cleanup_outcome, polls, writes) ==
    LET left == cleanup_failed_registration(register.user_id, cleanup_outcome,
                                            auth_users, students)
    IN  /\ auth_users' = left.auth_users
        /\ students' = left.students
        /\ register' = [register EXCEPT !.pc = "done", !.status = 500,
                                        !.retry_count = @ + 1,
                                        !.polls = polls, !.writes = writes,
                                        !.cleanup = register.user_id,
                                        !.cleanup_raised = left.raised]

\* one pass of the loop that confirms the user: get_user_by_id returns the user,
\* returns nothing, or raises
RegisterPoll(outcome, cleanup_outcome) ==
    /\ register.pc = "poll"
    /\ register.polls < MaxAttempts
    /\ IF outcome = "user"
       THEN /\ register' = [register EXCEPT !.pc = "write", !.retry_count = 0,
                                            !.polls = @ + 1]
            /\ UNCHANGED <<auth_users, students>>
       ELSE IF outcome = "none"
       THEN /\ register' = [register EXCEPT !.polls = @ + 1]
            /\ UNCHANGED <<auth_users, students>>
       ELSE IF register.retry_count + 1 = max_retries
       THEN RegisterFails(cleanup_outcome, register.polls + 1, register.writes)
       ELSE /\ register' = [register EXCEPT !.retry_count = @ + 1, !.polls = @ + 1]
            /\ UNCHANGED <<auth_users, students>>
    /\ UNCHANGED outsideRegister

\* the module code of the profile a register request carries
ProfileModuleCode == ModuleCode(1)

\* one pass of the loop that writes the profile: the update returns the row,
\* returns nothing (no row has the id), or raises
RegisterWrite(outcome, cleanup_outcome) ==
    /\ register.pc = "write"
    /\ register.writes < MaxAttempts
    /\ outcome = "data" => register.user_id \in DOMAIN students
    /\ outcome = "empty" => register.user_id \notin DOMAIN students
    /\ IF outcome = "data"
       THEN /\ students' = [students EXCEPT ![register.user_id].module_code =
                                ProfileModuleCode]
            /\ register' = [register EXCEPT !.pc = "done", !.status = 200,
                                            !.writes = @ + 1]
            /\ UNCHANGED auth_users
       ELSE IF outcome = "empty"
       THEN /\ register' = [register EXCEPT !.writes = @ + 1]
            /\ UNCHANGED <<auth_users, students>>
       ELSE IF register.retry_count + 1 = max_retries
       THEN RegisterFails(cleanup_outcome, register.polls, register.writes + 1)
       ELSE /\ register' = [register EXCEPT !.retry_count = @ + 1, !.writes = @ + 1]
            /\ UNCHANGED <<auth_users, students>>
    /\ UNCHANGED outsideRegister

api_student_register ==
    \/ \E outcome \in SignUpOutcomes, row_made \in BOOLEAN :
           RegisterSignUp(outcome, row_made)
    \/ \E outcome \in {"user", "none", "raises"}, cleanup_outcome \in CleanupOutcomes :
           RegisterPoll(outcome, cleanup_outcome)
    \/ \E outcome \in {"data", "empty", "raises"}, cleanup_outcome \in CleanupOutcomes :
           RegisterWrite(outcome, cleanup_outcome)

----------------------------------------------------------------------------
(* The apologies *)

\* the variables the routes of the apologies neither read nor write
outsideApologies ==
    <<now, class_timetable, students, attendance_records, marking, backfilling,
      at_risk_warnings, risk_call, campaigning, summarising, timing, registering,
      scheduling, creating, signing, administering, submitting>>

\* the lecturer of a module: column lecturer_id of table modules
ModuleLecturer(m) == IF m = 1 THEN "L1" ELSE "L2"

\* the answer of a route that acts on the rows of a module
LecturerAnswer(route, auth_header, module_id, status) ==
    [RouteAnswer(route, auth_header, status) EXCEPT !.module_id = module_id]

\* the identity of a bearer header, none, or an error
Identity(auth_header) ==
    IF BearerHeader(auth_header) THEN get_user(SecondField(auth_header)) ELSE NoUser

\* a row of apology_submissions
Apology(student_id, status, decision_reason) ==
    [student_id |-> student_id, status |-> status, decision_reason |-> decision_reason]

\* POST /api/submit-apology
api_handle_apology_submission(auth_header, has_file, filename) ==
    LET user == Identity(auth_header)
        status == IF ~ BearerHeader(auth_header) THEN 401
                  ELSE IF user = Raises THEN 500
                  ELSE IF user = NoUser THEN 401
                  ELSE IF ~ has_file THEN 400
                  ELSE IF filename = <<>> THEN 400
                  ELSE 201
    IN  /\ Len(apology_submissions) < MaxApologies
        /\ apology_submissions' =
               IF status = 201
               THEN Append(apology_submissions, Apology(user, "Pending", ""))
               ELSE apology_submissions
        /\ route_call' = RouteAnswer("submit-apology", auth_header, status)
        /\ UNCHANGED <<lecture_schedules, outbox, outsideApologies>>

\* GET /api/get-apologies
api_get_apologies(auth_header) ==
    LET user == IF BearerHeader(auth_header)
                THEN get_user(SecondField(auth_header)) ELSE NoUser
        status == IF ~ BearerHeader(auth_header) THEN 401
                  ELSE IF user = Raises THEN 500
                  ELSE IF user = NoUser THEN 401
                  ELSE 200
    IN  /\ route_call' = RouteAnswer("get-apologies", auth_header, status)
        /\ UNCHANGED <<lecture_schedules, outbox, apologising, outsideApologies>>

\* the message send_decision_email hands to send_email
DecisionEmail(submission_id, status) ==
    [to |-> apology_submissions[submission_id].student_id, kind |-> "decision",
     ref |-> <<submission_id, status>>]

\* send_decision_email can address the student of a submission
CanNotify(submission_id) ==
    IF submission_id \in DOMAIN apology_submissions
    THEN apology_submissions[submission_id].student_id \in DOMAIN students
    ELSE FALSE

\* the module a submission is about: the module of its student, 0 if there is none
ModuleOfApology(submission_id) ==
    IF CanNotify(submission_id)
    THEN ModuleOf(apology_submissions[submission_id].student_id)
    ELSE 0

\* POST /api/update-apology-status; the mail relay accepts the message or not
api_update_apology_status(auth_header, submission_id, new_status, reason) ==
    LET user == Identity(auth_header)
        status == IF ~ BearerHeader(auth_header) THEN 401
                  ELSE IF user = Raises THEN 500
                  ELSE IF user = NoUser THEN 401
                  ELSE IF submission_id = 0 \/ new_status = "" \/ reason = "" THEN 400
                  ELSE 200
        updates == status = 200 /\ submission_id \in DOMAIN apology_submissions
        mails == status = 200 /\ CanNotify(submission_id)
    IN  /\ BagCardinality(RowsWhere(outbox, LAMBDA e : e.kind = "decision")) < MaxDecisions
        /\ apology_submissions' =
               IF updates
               THEN [apology_submissions EXCEPT ![submission_id] =
                         Apology(@.student_id, new_status, reason)]
               ELSE apology_submissions
        /\ \E outcome \in RelayOutcomes :
               /\ outbox' = IF mails /\ send_email(outcome) = "True"
                            THEN outbox (+) SetToBag({DecisionEmail(submission_id, new_status)})
                            ELSE outbox
               /\ route_call' =
                      [LecturerAnswer("update-apology-status", auth_header,
                                      ModuleOfApology(submission_id), status)
                           EXCEPT !.decision = IF mails
                                               THEN <<submission_id, new_status, outcome>>
                                               ELSE <<>>]
        /\ UNCHANGED <<lecture_schedules, outsideApologies>>

\* str.endswith
EndsWith(text, suffix) ==
    /\ Len(text) >= Len(suffix)
    /\ SubSeq(text, Len(text) - Len(suffix) + 1, Len(text)) = suffix

\* file names of an uploaded guide
NoFilename == <<>>
MdFilename == <<"g", ".", "m", "d">>
PdfFilename == <<"g", ".", "p", "d", "f">>

\* a line of a guide: one the schedule pattern matches, with its date, or another
DatedLine(d) == [matches |-> TRUE, lecture_date |-> d]
PlainLine == [matches |-> FALSE, lecture_date |-> 0]

\* schedule_entries: the rows made of the lines the pattern matches; of a row the
\* columns of its key are kept, which are the ones that are read
schedule_entries(module_id, content) ==
    { Lecture(module_id, content[i].lecture_date) :
          i \in { j \in DOMAIN content : content[j].matches } }

\* a module id that no row of modules has
NoModule == 9

\* POST /upload-guide
handle_guide_upload(auth_header, has_file, module_id, filename, content) ==
    LET user == Identity(auth_header)
        entries == schedule_entries(module_id, content)
        status == IF ~ BearerHeader(auth_header) THEN 401
                  ELSE IF user = Raises THEN 500
                  ELSE IF user = NoUser THEN 401
                  ELSE IF ~ has_file THEN 400
                  ELSE IF module_id \notin ModuleIds THEN 500
                  ELSE IF ModuleLecturer(module_id) # user THEN 403
                  ELSE IF filename = NoFilename THEN 400
                  ELSE IF ~ (EndsWith(filename, <<".", "t", "x", "t">>)
                             \/ EndsWith(filename, <<".", "m", "d">>)) THEN 400
                  ELSE IF entries = {} THEN 400
                  ELSE 200
    IN  /\ lecture_schedules' =
               IF status = 200 THEN lecture_schedules \cup entries ELSE lecture_schedules
        /\ route_call' = LecturerAnswer("upload-guide", auth_header, module_id, status)
        /\ UNCHANGED <<outbox, apologising, outsideApologies>>

----------------------------------------------------------------------------
(* The scheduler *)

\* an absent date
NoDate == 0 - 1

\* before the first tick
NoJobRuns ==
    [at |-> NoDate, weekly |-> EmptyBag, relay |-> "none", processed |-> EmptyBag,
     starts |-> 0]

\* last_run_times when the process starts
NoRuns == [absentee_check |-> {}, weekly_summary |-> NoDate]

\* now.replace(hour=end_time.hour, minute=end_time.minute, second=0, microsecond=0)
class_end_datetime(t, session) == Combine(DateOf(t), (session.end_time \div 60) * 60)

\* now > class_end_datetime and (now - class_end_datetime).seconds <= 300
EndedJustNow(t, session) ==
    /\ t > class_end_datetime(t, session)
    /\ Seconds(t - class_end_datetime(t, session)) <= 300

\* f"{today_str}_{session['id']}"
session_id_for_day(t, session) == <<DateOf(t), session.id>>

\* a faulty variant: no record of the day is found
NoRecordedIds(records, m, d) == {}

\* recorded_ids: the students with a record of the module created on the day
RecordedIds(records, m, d) ==
    { x.student_id : x \in { y \in BagToSet(records) :
        /\ y.module_id = m
        /\ y.created_at >= Combine(d, 0)
        /\ y.created_at <= Combine(d, 23 * 3600 + 59 * 60 + 59) } }

\* absent_records
AbsentRecords(absent_ids, session, t) ==
    { [student_id |-> s, module_id |-> session.module_id, status |-> "absent",
       created_at |-> class_end_datetime(t, session)] : s \in absent_ids }

\* count='exact' of the absent rows of a student in a module, among given rows
AbsencesIn(records, s, m) ==
    BagCardinality(RowsWhere(records,
        LAMBDA x : x.student_id = s /\ x.module_id = m /\ x.status = "absent"))

RECURSIVE RiskChecks(_, _, _, _)
\* check_and_send_at_risk_warning for each of the absent students; st holds the
\* rows, the ledger, the outbox and whether send_email was called
RiskChecks(ids, m, accepted, st) ==
    IF ids = {} THEN st
    ELSE LET s == CHOOSE x \in ids : TRUE
             done == WarningLoop(1, s, m, AbsencesIn(st.records, s, m), accepted,
                         [ledger |-> st.ledger, outbox |-> st.outbox,
                          attempts |-> {}, sent |-> {}])
         IN  RiskChecks(ids \ {s}, m, accepted,
                 [st EXCEPT !.ledger = done.ledger, !.outbox = done.outbox,
                            !.tried = @ \/ done.attempts # {}])

\* the message of send_daily_absence_emails, as the relay receives it
CatchUpEmail(s, m, d) == [to |-> s, kind |-> "catch_up", ref |-> <<m, d>>]

\* the absent rows of a student for a module created on a day
AbsentRowsOn(records, s, m, d) ==
    BagCardinality(RowsWhere(records,
        LAMBDA x : /\ x.student_id = s
                   /\ x.module_id = m
                   /\ x.status = "absent"
                   /\ x.created_at >= Combine(d, 0)
                   /\ x.created_at <= Combine(d, 23 * 3600 + 59 * 60 + 59)))

\* the messages of one run of send_daily_absence_emails: one for each absent row
\* of the day of a module with a lecture on that day, if its student has an address
DailyAbsenceEmails(records, d) ==
    LET notices == { <<s, l.module_id>> : s \in DOMAIN students,
                                          l \in { k \in lecture_schedules : k.lecture_date = d } }
        due == { p \in notices : students[p[1]].email /\ AbsentRowsOn(records, p[1], p[2], d) > 0 }
    IN  [e \in { CatchUpEmail(p[1], p[2], d) : p \in due } |->
             AbsentRowsOn(records, e.to, e.ref[1], d)]

\* what the job does for one session; st holds the rows, the ledger, the outbox,
\* the markers, whether send_email was called and the sessions gone through
SweepSession(session, t, accepted, st) ==
    IF ~ EndedJustNow(t, session) THEN st
    ELSE IF session_id_for_day(t, session) \in st.markers THEN st
    ELSE LET enrolled_ids == EnrolledIn(session.module_id)
             recorded_ids == RecordedIds(st.records, session.module_id, DateOf(t))
             absent_ids == enrolled_ids \ recorded_ids
             marked == [st EXCEPT !.records = @ (+) SetToBag(AbsentRecords(absent_ids, session, t))]
             warned == RiskChecks(absent_ids, session.module_id, accepted, marked)
             notices == DailyAbsenceEmails(warned.records, DateOf(t))
             mailed == [warned EXCEPT !.outbox = IF accepted THEN @ (+) notices ELSE @,
                                      !.tried = @ \/ BagToSet(notices) # {}]
         IN  IF enrolled_ids = {} THEN st
             ELSE IF absent_ids = {}
             THEN [st EXCEPT !.markers = @ \cup {session_id_for_day(t, session)},
                             !.processed = @ (+) SetToBag({session_id_for_day(t, session)})]
             ELSE [mailed EXCEPT !.markers = @ \cup {session_id_for_day(t, session)},
                                 !.processed = @ (+) SetToBag({session_id_for_day(t, session)})]

RECURSIVE SweepSessions(_, _, _, _)
\* the loop over the sessions of the day
SweepSessions(sessions, t, accepted, st) ==
    IF sessions = <<>> THEN st
    ELSE SweepSessions(Tail(sessions), t, accepted,
             SweepSession(Head(sessions), t, accepted, st))

\* now.weekday() == 6 and now.hour >= 18
SundayEvening(t) == Weekday(t) = 6 /\ TimeOf(t) \div 3600 >= 18

\* the weekly summary is triggered by a tick at t
WeeklyDue(t, marker) == SundayEvening(t) /\ marker # DateOf(t)

\* the variables a tick of the scheduler neither reads nor writes
outsideScheduler ==
    <<marking, backfilling, risk_call, campaigning, routing, registering, apologising,
      creating, signing, administering, submitting>>

\* what a tick does once get_system_time has returned t: the sweep of the classes
\* that have just ended, then the weekly summary, whose window ends before the
\* day of the rows the sweep writes; the mail relay takes the messages of the
\* tick or refuses them
SchedulerJobAt(t) ==
    \E outcome \in RelayOutcomes :
        LET accepted == send_email(outcome) = "True"
            swept == SweepSessions(SessionsOfDay(t), t, accepted,
                         [records |-> attendance_records, ledger |-> at_risk_warnings,
                          outbox |-> outbox, markers |-> last_run_times.absentee_check,
                          tried |-> FALSE, processed |-> job_runs.processed])
            due == WeeklyDue(t, last_run_times.weekly_summary)
            summary == send_weekly_summary_emails(t, accepted, swept.outbox)
        IN  /\ attendance_records' = swept.records
            /\ at_risk_warnings' = swept.ledger
            /\ outbox' = IF due THEN summary.outbox ELSE swept.outbox
            /\ weekly_run' = IF due THEN summary.run ELSE weekly_run
            /\ last_run_times' =
                   [absentee_check |-> swept.markers,
                    weekly_summary |-> IF due THEN DateOf(t)
                                       ELSE last_run_times.weekly_summary]
            /\ job_runs' = [at |-> t,
                            weekly |-> IF due THEN job_runs.weekly (+) SetToBag({t})
                                       ELSE job_runs.weekly,
                            relay |-> IF swept.tried THEN outcome ELSE "none",
                            processed |-> swept.processed,
                            starts |-> job_runs.starts]
            /\ UNCHANGED <<tables, outsideScheduler>>

\* one tick while the simulated clock shows now
unified_scheduler_job ==
    /\ SchedulerJobAt(now)
    /\ UNCHANGED <<now, timing>>

\* one tick of the interval job: it reads the clock with get_system_time, whose
\* read of the settings succeeds or raises, and goes on with the time returned
scheduler_tick ==
    \E fetch_ok \in BOOLEAN :
        /\ GetSystemTime(fetch_ok)
        /\ SchedulerJobAt(now')
        /\ UNCHANGED <<system_settings, time_set>>

\* the process is started again: the memory of the process is as at the start,
\* and backfill_missed_attendance runs before the first tick.  With the override
\* on, the clock shows the simulated time of the settings row again, which is
\* the time the behaviour began with; with the override off it shows the time
\* it showed
Restart(began) ==
    /\ job_runs.starts < MaxRestarts
    /\ now' \in {now, began}
    /\ last_run_times' = NoRuns
    /\ system_time_settings' = NoSettings
    /\ job_runs' = [job_runs EXCEPT !.starts = @ + 1]
    /\ attendance_records' = BackfillLectures(PastLectures(DateOf(now')), attendance_records)
    /\ UNCHANGED <<tables, marking, backfilling, warning, campaigning, summarising,
                   system_settings, time_set, time_call, routing, registering,
                   apologising, creating, signing, administering, submitting>>

\* the tick of a Sunday from 18:00 on that triggers the weekly summary
weekly_summary_tick ==
    /\ WeeklyDue(now, last_run_times.weekly_summary)
    /\ unified_scheduler_job

----------------------------------------------------------------------------
(* POST /api/create-campaign and send_campaign_emails *)

\* a question of the request body
RequestQuestion(type, correct_answer, options) ==
    [type |-> type, correct_answer |-> correct_answer, options |-> options]

ChoiceQuestion == RequestQuestion("multiple_choice", "B", <<"A", "B">>)
TextQuestion == RequestQuestion("text", NoAnswer, <<>>)

\* the store call of the flow that raises, and for the inserts the question it
\* is made for; "none" when every call succeeds
NoFault == <<"none", 0>>

\* the store calls made after the insert of the campaign row
CreateFaults ==
    { NoFault, <<"fetch_campaign", 0>>, <<"fetch_students", 0>>, <<"status_update", 0>> }
        \cup { <<point, k>> : point \in {"question_insert", "option_insert"}, k \in 1..2 }

\* the insert of the options of the k-th question is made
HasOptions(questions, k) ==
    questions[k].type = "multiple_choice" /\ questions[k].options # <<>>

\* the fault can happen in a request with these questions
FaultCanHappen(fault, questions) ==
    IF fault[1] = "question_insert" THEN fault[2] <= Len(questions)
    ELSE IF fault[1] = "option_insert"
    THEN IF fault[2] <= Len(questions) THEN HasOptions(questions, fault[2]) ELSE FALSE
    ELSE TRUE

\* how many questions and how many sets of options are inserted before the fault
QuestionsInserted(fault, questions) ==
    IF fault[1] = "question_insert" THEN fault[2] - 1
    ELSE IF fault[1] = "option_insert" THEN fault[2]
    ELSE Len(questions)

OptionsInserted(fault, questions) ==
    IF fault[1] \in {"question_insert", "option_insert"} THEN fault[2] - 1
    ELSE Len(questions)

\* the ids the store gives the inserted questions
NextQuestionId(k) == Cardinality(campaign_questions) + k

\* question_data of the k-th question
QuestionRow(c, questions, k) ==
    Question(NextQuestionId(k), c,
             IF questions[k].type = "multiple_choice" /\ questions[k].correct_answer # NoAnswer
             THEN questions[k].correct_answer
             ELSE NoAnswer)

\* options_to_insert of the k-th question
OptionRows(questions, k) ==
    IF HasOptions(questions, k)
    THEN { [question_id |-> NextQuestionId(k), option_text |-> questions[k].options[i]] :
             i \in DOMAIN questions[k].options }
    ELSE {}

\* the message of send_campaign_emails, as the relay receives it
CampaignEmail(s, c) == [to |-> s, kind |-> "campaign", ref |-> <<c>>]

\* students .eq('module_code', 'SODM401')
TargetStudents == { s \in DOMAIN students : students[s].module_code = "SODM401" }

\* what send_campaign_emails leaves: the status of the campaign and the outbox.
\* Its whole body is in a try whose except only prints
send_campaign_emails(c, campaign_type, fault, outcome, box) ==
    IF fault[1] \in {"fetch_campaign", "fetch_students"}
    THEN [status |-> "Sending", outbox |-> box]
    ELSE IF TargetStudents = {}
    THEN [status |-> "Sending", outbox |-> box]
    ELSE LET mailed ==
                 IF /\ campaign_type \in {"WEEKLY_QUIZ", "FEEDBACK_SURVEY"}
                    /\ send_email(outcome) = "True"
                 THEN box (+) SetToBag({ CampaignEmail(s, c) : s \in TargetStudents })
                 ELSE box
         IN  [status |-> IF fault[1] = "status_update" THEN "Sending" ELSE "Sent",
              outbox |-> mailed]

NoCreateCall ==
    [made |-> FALSE, auth_header |-> NoHeader, status |-> 0, campaign_id |-> 0,
     fault |-> NoFault]

\* the types and the questions a request carries; the empty ones are missing
CampaignTypes == {"WEEKLY_QUIZ", "FEEDBACK_SURVEY", ""}
QuestionLists == { <<>>, <<ChoiceQuestion>>, <<TextQuestion, ChoiceQuestion>> }

\* one whole request; at most one store call after the insert of the campaign
\* row raises
api_create_campaign(auth_header, campaign_type, questions, fault) ==
    LET user == Identity(auth_header)
        c == Len(campaigns) + 1
        answer(status, id, f) ==
            [made |-> TRUE, auth_header |-> auth_header, status |-> status,
             campaign_id |-> id, fault |-> f]
        refused(status) ==
            /\ create_call' = answer(status, 0, NoFault)
            /\ UNCHANGED <<campaigns, campaign_questions, question_options, outbox>>
        inserts == fault[1] \in {"question_insert", "option_insert"}
    IN  /\ Len(campaigns) < MaxCampaigns
        /\ FaultCanHappen(fault, questions)
        /\ IF ~ BearerHeader(auth_header) THEN refused(401)
           ELSE IF user = Raises THEN refused(500)
           ELSE IF user = NoUser THEN refused(401)
           ELSE IF campaign_type = "" \/ questions = <<>> THEN refused(400)
           ELSE \E outcome \in RelayOutcomes :
                    LET sent == send_campaign_emails(c, campaign_type, fault, outcome, outbox)
                    IN  /\ campaigns' = Append(campaigns,
                               Campaign(campaign_type, IncentiveOf(campaign_type),
                                        IF inserts THEN "Failed" ELSE sent.status))
                        /\ campaign_questions' = campaign_questions \cup
                               { QuestionRow(c, questions, k) :
                                   k \in 1..QuestionsInserted(fault, questions) }
                        /\ question_options' = question_options \cup
                               UNION { OptionRows(questions, k) :
                                   k \in 1..OptionsInserted(fault, questions) }
                        /\ outbox' = IF inserts THEN outbox ELSE sent.outbox
                        /\ create_call' = answer(IF inserts THEN 500 ELSE 201, c, fault)
        /\ UNCHANGED <<now, tables, attendance_records, marking, backfilling,
                       at_risk_warnings, risk_call, real_time, answering, drawing,
                       summarising, timing, routing, registering, apologising, scheduling,
                       signing, administering, submitting>>

----------------------------------------------------------------------------
(* POST /api/admin/backfill-all-students *)

\* the variables the route neither reads nor writes
outsideCatchUp ==
    <<now, tables, marking, backfilling, warning, campaigning, summarising, timing,
      routing, registering, apologising, scheduling, creating, signing, check_call, submitting>>

\* the module whose lecturer_id is the user, none when no module has it
ModuleOfLecturer(user) ==
    IF \E m \in ModuleIds : ModuleLecturer(m) = user
    THEN CHOOSE m \in ModuleIds : ModuleLecturer(m) = user
    ELSE NoModule

\* lecture_date of the lectures of the module before today
PastLectureDates(m, today) ==
    { l.lecture_date : l \in { x \in lecture_schedules :
                                   x.module_id = m /\ x.lecture_date < today } }

\* a faulty variant: a record of any student of the module on the date counts
ModuleRecordExists(records, student_id, m, d) ==
    \E x \in BagToSet(records) :
        /\ x.module_id = m
        /\ x.created_at >= Combine(d, 0)
        /\ x.created_at <= Combine(d, 23 * 3600 + 59 * 60 + 59)

\* existing_res.data is not empty: a row of the student for the module created
\* from T00:00:00 to T23:59:59 of the date
StudentRecordExists(records, student_id, m, d) ==
    \E x \in BagToSet(records) :
        /\ x.student_id = student_id
        /\ x.module_id = m
        /\ x.created_at >= Combine(d, 0)
        /\ x.created_at <= Combine(d, 23 * 3600 + 59 * 60 + 59)

\* the two loops, over the students and the past lectures: each pass sees the
\* rows inserted before it; the result is the table and backfill_count
RECURSIVE CatchUpLoop(_, _, _)
CatchUpLoop(pairs, m, st) ==
    IF pairs = {} THEN st
    ELSE LET pair == CHOOSE x \in pairs : TRUE
             student_id == pair[1]
             lecture_date == pair[2]
             row == [student_id |-> student_id, module_id |-> m, status |-> "absent",
                     created_at |-> Combine(lecture_date, 17 * 3600)]
             next == IF StudentRecordExists(st.records, student_id, m, lecture_date)
                     THEN st
                     ELSE [records |-> st.records (+) SetToBag({row}),
                           backfill_count |-> st.backfill_count + 1]
         IN  CatchUpLoop(pairs \ {pair}, m, next)

\* the route: what it answers and what it leaves in attendance_records; the
\* lookup of the module of a user who lectures none answers 404 or raises
api_backfill_all_students(auth_header, no_module_status) ==
    LET user == Identity(auth_header)
        m == ModuleOfLecturer(user)
        today == DateOf(now)
        dates == PastLectureDates(m, today)
        done == CatchUpLoop(EnrolledIn(m) \X dates, m,
                            [records |-> attendance_records, backfill_count |-> 0])
        status == IF ~ BearerHeader(auth_header) THEN 401
                  ELSE IF user = Raises THEN 500
                  ELSE IF user = NoUser THEN 401
                  ELSE IF m = NoModule THEN no_module_status
                  ELSE IF EnrolledIn(m) = {} THEN 404
                  ELSE 200
        after == IF status = 200 THEN done.records ELSE attendance_records
        run == [status |-> status, module_id |-> m, date |-> today,
                before |-> attendance_records, after |-> after,
                backfill_count |-> IF status = 200 THEN done.backfill_count ELSE 0]
    IN  /\ catchup_call.count < MaxCatchUps
        /\ attendance_records' = after
        /\ catchup_call' =
               [count |-> catchup_call.count + 1,
                runs |-> IF catchup_call.runs = <<>> THEN <<run>>
                         ELSE <<catchup_call.runs[Len(catchup_call.runs)], run>>]
        /\ UNCHANGED outsideCatchUp

----------------------------------------------------------------------------
(* POST /api/run-at-risk-check *)

\* the variables the route neither reads nor writes
outsideRiskCheck ==
    <<now, tables, attendance_records, marking, backfilling, at_risk_warnings, risk_call,
      campaigning, summarising, timing, routing, registering, apologising, scheduling,
      creating, signing, catchup_call, submitting>>

\* thresholds = [21, 18, 16]
check_thresholds == <<21, 18, 16>>

\* a faulty variant: the first threshold from the lowest up that is met
LowestThresholdMet(i, total_absences) ==
    IF total_absences >= 16 THEN 16 ELSE 0

\* the loop over the thresholds from the i-th one on: the threshold of the first
\* pass whose test holds, where the loop breaks, and 0 when no pass does
RECURSIVE FirstThresholdMet(_, _)
FirstThresholdMet(i, total_absences) ==
    IF i > Len(check_thresholds) THEN 0
    ELSE IF total_absences >= check_thresholds[i] THEN check_thresholds[i]
    ELSE FirstThresholdMet(i + 1, total_absences)

\* absence_counts.get(student_id, 0) of the bulk query
BulkAbsenceCount(records, student_id, m) ==
    BagCardinality(RowsWhere(records,
        LAMBDA x : x.student_id = student_id /\ x.module_id = m /\ x.status = "absent"))

\* the message of a threshold, as the relay receives it
CheckEmail(student_id, m, threshold) ==
    [to |-> student_id, kind |-> "risk_check", ref |-> <<m, threshold>>]

\* the messages of the loop over the students that the relay accepted
CheckEmails(m, relay) ==
    { CheckEmail(student_id, m,
                 FirstThresholdMet(1, BulkAbsenceCount(attendance_records, student_id, m))) :
        student_id \in { x \in EnrolledIn(m) :
            /\ FirstThresholdMet(1, BulkAbsenceCount(attendance_records, x, m)) # 0
            /\ send_email(relay[x]) = "True" } }

\* TOTAL_SEMESTER_CLASSES
TotalSemesterClasses(m) == Cardinality({ l \in lecture_schedules : l.module_id = m })

\* the route; 100 / TOTAL_SEMESTER_CLASSES raises when the module has no lecture
api_run_at_risk_check(auth_header, no_module_status, relay) ==
    LET user == Identity(auth_header)
        m == ModuleOfLecturer(user)
        status == IF ~ BearerHeader(auth_header) THEN 401
                  ELSE IF user = Raises THEN 500
                  ELSE IF user = NoUser THEN 401
                  ELSE IF m = NoModule THEN no_module_status
                  ELSE IF EnrolledIn(m) = {} THEN 404
                  ELSE IF TotalSemesterClasses(m) = 0 THEN 500
                  ELSE 200
        mails == IF status = 200 THEN CheckEmails(m, relay) ELSE {}
    IN  /\ check_call.count < MaxChecks
        /\ outbox' = outbox (+) SetToBag(mails)
        /\ check_call' =
               [count |-> check_call.count + 1, status |-> status, module_id |-> m,
                totals |-> IF status = 200
                           THEN [x \in EnrolledIn(m) |->
                                    BulkAbsenceCount(attendance_records, x, m)]
                           ELSE <<>>,
                relay |-> relay,
                mailed |-> IF status = 200
                           THEN [x \in EnrolledIn(m) |->
                                    { e.ref[2] : e \in { y \in mails : y.to = x } }]
                           ELSE <<>>,
                ledger_before |-> at_risk_warnings, outbox_before |-> outbox]
        /\ UNCHANGED outsideRiskCheck

----------------------------------------------------------------------------
(* Specifications *)

\* every student is enrolled in the module of campaigns, with an address
Enrolment ==
    [s \in StudentIds |-> [module_code |-> ModuleCode(1), email |-> TRUE]]

\* no backfill-all-students request and no run-at-risk-check request was made
NoCatchUp == [count |-> 0, runs |-> <<>>]
NoCheck ==
    [count |-> 0, status |-> 0, module_id |-> 0, totals |-> <<>>, relay |-> <<>>,
     mailed |-> <<>>, ledger_before |-> EmptyBag, outbox_before |-> EmptyBag]

\* no request was made, no job has run and no message was sent
InitIdle ==
    /\ req = [r \in 1..MaxReq |-> IdleReq]
    /\ ok_marks = {}
    /\ poll = [session |-> NoSession, current_time |-> 0]
    /\ backfill_log = <<>>
    /\ at_risk_warnings = EmptyBag
    /\ outbox = EmptyBag
    /\ risk_call = NoCall
    /\ campaign_participants = EmptyBag
    /\ campaign_responses = EmptyBag
    /\ vouchers = EmptyBag
    /\ campaign_call = NoCampaignCall
    /\ campaign_read = NoPayload
    /\ submitted = {}
    /\ real_time = 0
    /\ pick_call = NoPick
    /\ picks = 0
    /\ weekly_run = NoWeeklyRun
    /\ system_settings = [override_enabled |-> FALSE, simulated_datetime |-> NoTime]
    /\ system_time_settings = NoSettings
    /\ time_set = NoTimeSet
    /\ time_call = NoTimeCall
    /\ route_call = NoRouteCall
    /\ registration = NoRegistration
    /\ embedding = [s \in StudentIds |-> NoEmbedding]
    /\ apology_submissions = <<>>
    /\ last_run_times = NoRuns
    /\ job_runs = NoJobRuns
    /\ question_options = {}
    /\ create_call = NoCreateCall
    /\ register = NoRegister
    /\ auth_users = {}
    /\ catchup_call = NoCatchUp
    /\ check_call = NoCheck
    /\ submit_req = [r \in 1..MaxSubmits |-> NoSubmit]
    /\ stranded = {}

\* no campaign was created
InitNoCampaign ==
    /\ campaigns = <<>>
    /\ campaign_questions = {}

InitStore ==
    /\ now = 0
    /\ class_timetable \in Timetables
    /\ students = Enrolment
    /\ lecture_schedules = {}
    /\ attendance_records = EmptyBag
    /\ InitIdle
    /\ InitNoCampaign

\* mark-attendance requests, interleaved, under a running clock
Init == InitStore

Next == api_mark_attendance \/ AdvanceTime

Spec == Init /\ [][Next]_vars

\* the poll of the open session under a running clock
NextSession == api_get_current_class \/ AdvanceTime

SpecSession == Init /\ [][NextSession]_vars

\* the lecture schedules a behaviour can start with
LectureChoices == SUBSET { Lecture(m, d) : m \in ModuleIds, d \in 0..MaxDay }

\* the enrolments a behaviour can start with: module 2 with and without students
EnrolmentChoices ==
    { Enrolment,
      [Enrolment EXCEPT !["s2"].module_code = ModuleCode(2)] }

\* the timetables a behaviour of the backfill can start with
BackfillTimetables ==
    { <<Session(1, 1, 1, T0900, T0900 + 3600)>>,
      <<Session(1, 1, 1, T0900, T0900 + 3600), Session(2, 2, 1, T0930, T0930 + 3600)>> }

\* the startup backfill, run any number of times, with one request marking
\* attendance under a running clock
InitBackfill ==
    /\ now = 0
    /\ class_timetable \in BackfillTimetables
    /\ students \in EnrolmentChoices
    /\ lecture_schedules \in LectureChoices
    /\ attendance_records = EmptyBag
    /\ InitIdle
    /\ InitNoCampaign

NextBackfill ==
    \/ backfill_missed_attendance
    \/ \E s \in StudentIds : MarkBegin(1, s)
    \/ MarkCheck(1)
    \/ MarkInsert(1)
    \/ AdvanceTime

SpecBackfill == InitBackfill /\ [][NextBackfill]_vars

\* the at-risk check, called at any time while the sweep adds absences
InitAtRisk ==
    /\ now = 0
    /\ class_timetable = <<Session(1, 1, 1, T0900, T0900 + 3600)>>
    /\ students = Enrolment
    /\ lecture_schedules = {}
    /\ attendance_records = EmptyBag
    /\ InitIdle
    /\ InitNoCampaign

NextAtRisk ==
    \/ \E s \in StudentIds : mark_absent(s)
    \/ \E s \in StudentIds : check_and_send_at_risk_warning(s, ModuleOf(s))

SpecAtRisk == InitAtRisk /\ [][NextAtRisk]_vars

\* a quiz and a survey were created and their links sent at host time 0
InitCampaign ==
    /\ now = 0
    /\ class_timetable = <<Session(1, 1, 1, T0900, T0900 + 3600)>>
    /\ students = Enrolment
    /\ lecture_schedules = {}
    /\ attendance_records = EmptyBag
    /\ InitIdle
    /\ campaigns = (1 :> Campaign("WEEKLY_QUIZ", IncentiveOf("WEEKLY_QUIZ"), "Sent"))
                    @@ (2 :> Campaign("FEEDBACK_SURVEY", IncentiveOf("FEEDBACK_SURVEY"), "Sent"))
    /\ campaign_questions = { Question(1, 1, "B"), Question(2, 1, "A"),
                              Question(3, 1, NoAnswer), Question(4, 2, NoAnswer) }

\* the links that are followed
Links == { Token(1, "s1", 0, TRUE), Token(1, "s2", 0, TRUE), Token(2, "s1", 0, TRUE) }

\* the tokens a request carries: a link, a link whose text was changed, none
RequestTokens == Links \cup { Token(1, "s1", 0, FALSE), NoToken }

\* requests with the links, one after the other, while the host clock runs
NextCampaign ==
    \/ \E token \in RequestTokens : api_get_campaign_for_student(token)
    \/ \E token \in RequestTokens, responses \in ResponseChoices :
           api_submit_campaign_response(token, responses)
    \/ AdvanceRealTime

SpecCampaign == InitCampaign /\ [][NextCampaign]_vars

\* the students of the module of campaigns in a behaviour of the draw
DrawStudents == {"s1", "s2", "s3", "s4", "s5", "s6"}

\* the campaign a draw is made for
DrawCampaigns ==
    { Campaign("WEEKLY_QUIZ", AssignmentIncentive, "Sent"),
      Campaign("FEEDBACK_SURVEY", WifiIncentive, "Sent"),
      Campaign("FEEDBACK_SURVEY", PlainIncentive, "Sent") }

InitWinners ==
    /\ now = 0
    /\ class_timetable = <<Session(1, 1, 1, T0900, T0900 + 3600)>>
    /\ students = [s \in DrawStudents |-> [module_code |-> ModuleCode(1), email |-> TRUE]]
    /\ lecture_schedules = {}
    /\ attendance_records = EmptyBag
    /\ InitIdle
    /\ \E campaign \in DrawCampaigns : campaigns = (1 :> campaign)
    /\ campaign_questions = { Question(1, 1, "B") }

\* the order in which the students of a draw first answer
DrawOrder == <<"s1", "s2", "s3", "s4", "s5", "s6">>

\* every student before the i-th one has answered
MayAnswer(i) ==
    \A j \in 1..(i - 1) : ExistingResponse(1, DrawOrder[j]) # EmptyBag

\* the i-th student of the draw follows the link and answers
DrawAnswer(i) ==
    /\ MayAnswer(i)
    /\ api_submit_campaign_response(Token(1, DrawOrder[i], 0, TRUE), K1 :> "B")

\* students answer one after the other and the lecturer draws the winners
NextWinners ==
    \/ \E i \in DOMAIN DrawOrder : DrawAnswer(i)
    \/ api_pick_winners(1)

SpecWinners == InitWinners /\ [][NextWinners]_vars

\* module 1 meets at 09:00 on each of the first days of the week
DailyTimetable ==
    [d \in 1..(MaxDay + 1) |-> Session(d, 1, d, T0900, T0900 + 3600)]

\* what a student has for a class of module 1: nothing, a present row written
\* by mark-attendance, or an absent row written at the end of the class
Marks == {"none", "present", "absent"}

WeekRecords(mark) ==
    SetToBag({ [student_id |-> p[1], module_id |-> 1, status |-> mark[p],
                created_at |-> IF mark[p] = "present"
                               THEN Combine(p[2], T0900) ELSE Combine(p[2], T0900 + 3600)] :
               p \in { q \in StudentIds \X (0..MaxDay) : mark[q] # "none" } })

\* lecture schedules of module 1 over the first days, with or without one of module 2
WeekLectures ==
    { one \cup two : one \in SUBSET { Lecture(1, d) : d \in 0..MaxDay },
                     two \in { {}, {Lecture(2, 0)} } }

\* the enrolments of a week: both in module 1, one in module 2, one without address
WeekEnrolments ==
    EnrolmentChoices \cup { [Enrolment EXCEPT !["s2"].email = FALSE] }

\* the weekly summary on the Sunday evening of the first week and of the
\* second, over the records of the first week
InitWeekly ==
    /\ now = Combine(6, 18 * 3600)
    /\ class_timetable = DailyTimetable
    /\ students \in WeekEnrolments
    /\ lecture_schedules \in WeekLectures
    /\ \E mark \in [StudentIds \X (0..MaxDay) -> Marks] :
           attendance_records = WeekRecords(mark)
    /\ InitIdle
    /\ InitNoCampaign

NextWeekly == weekly_summary_tick \/ AdvanceWeek

SpecWeekly == InitWeekly /\ [][NextWeekly]_vars

\* the simulated clock: it is set and read while the clock of the host runs
InitTime ==
    /\ now = 0
    /\ class_timetable = <<Session(1, 1, 1, T0900, T0900 + 3600)>>
    /\ students = Enrolment
    /\ lecture_schedules = {}
    /\ attendance_records = EmptyBag
    /\ InitIdle
    /\ InitNoCampaign

TimeHeaders == {BearerGood, BearerBad}

NextTime ==
    \/ get_system_time
    \/ \E method \in {"GET", "POST"}, auth_header \in TimeHeaders,
          override_enabled \in BOOLEAN, simulated_datetime \in SimulatedStarts :
           api_system_time_control(method, auth_header, override_enabled, simulated_datetime)
    \/ HostTick

SpecTime == InitTime /\ [][NextTime]_vars

\* backfill-all-students requests while attendance is marked and days pass
CatchUpHeaders == {NoHeader, BearerGood, BearerOther, BearerBad, BearerStudent}

NextCatchUp ==
    \/ \E auth_header \in CatchUpHeaders, no_module_status \in {404, 500} :
           api_backfill_all_students(auth_header, no_module_status)
    \/ \E s \in StudentIds : MarkBegin(1, s)
    \/ MarkCheck(1)
    \/ MarkInsert(1)
    \/ AdvanceTime

\* the lecture schedules a behaviour of the route starts with
CatchUpLectures ==
    { {Lecture(1, 0)}, {Lecture(1, 0), Lecture(1, 1), Lecture(2, 0)} }

InitCatchUp ==
    /\ now = 0
    /\ class_timetable = <<Session(1, 1, 1, T0900, T0900 + 3600)>>
    /\ students \in EnrolmentChoices
    /\ lecture_schedules \in CatchUpLectures
    /\ attendance_records = EmptyBag
    /\ InitIdle
    /\ InitNoCampaign

SpecCatchUp == InitCatchUp /\ [][NextCatchUp]_vars

\* run-at-risk-check requests while the sweep adds absences and makes its own
\* check with the ledger
\* the absences s1 has when a behaviour of the route starts
StartAbsences == MaxAbsences - 7

InitRiskCheck ==
    /\ now = 0
    /\ class_timetable = <<Session(1, 1, 1, T0900, T0900 + 3600)>>
    /\ students = Enrolment
    /\ lecture_schedules \in {{}, {Lecture(1, 0), Lecture(1, 1)}}
    /\ attendance_records = SetToBag(
           { [student_id |-> "s1", module_id |-> 1, status |-> "absent",
              created_at |-> Combine(k, 17 * 3600)] : k \in 0..(StartAbsences - 1) })
    /\ InitIdle
    /\ InitNoCampaign

CheckHeaders == {BearerGood, BearerBad, BearerStudent}

NextRiskCheck ==
    \/ mark_absent("s1")
    \/ check_and_send_at_risk_warning("s1", ModuleOf("s1"))
    \/ \E auth_header \in CheckHeaders, no_module_status \in {404, 500},
          relay \in [StudentIds -> RelayOutcomes] :
           api_run_at_risk_check(auth_header, no_module_status, relay)

SpecRiskCheck == InitRiskCheck /\ [][NextRiskCheck]_vars

\* register requests, one after the other
NextRegister == api_student_register

SpecRegister == InitTime /\ [][NextRegister]_vars

\* requests that complete a registration, one after the other
NextRegistration == api_student_complete_registration

SpecRegistration == InitTime /\ [][NextRegistration]_vars

\* the headers a request to a route that wants a bearer carries
AuthHeaders == {NoHeader, BearerBare, BasicStudent, BearerStudent, BearerGood, BearerBad,
                BearerBroken}

\* requests to three routes that want a bearer, one after the other
NextRoutes ==
    \/ \E auth_header \in AuthHeaders : api_get_apologies(auth_header)
    \/ \E method \in {"GET", "POST"}, auth_header \in AuthHeaders,
          simulated_datetime \in SimulatedStarts :
           api_system_time_control(method, auth_header, TRUE, simulated_datetime)
    \/ \E auth_header \in AuthHeaders, images_data \in {<<>>, <<Capture(<<1, 1>>)>>} :
           CompleteRegistrationBegin(auth_header, images_data, ModuleCode(2))
    \/ CompleteRegistrationUpdate

SpecRoutes == InitTime /\ [][NextRoutes]_vars

\* the routes of the lecturers: student s1 of module 1 submits apologies, the
\* lecturers of modules 1 and 2 decide on them and upload guides
InitLecturer ==
    /\ now = 0
    /\ class_timetable = <<Session(1, 1, 1, T0900, T0900 + 3600)>>
    /\ students = [Enrolment EXCEPT !["s2"].module_code = ModuleCode(2)]
    /\ lecture_schedules = {}
    /\ attendance_records = EmptyBag
    /\ InitIdle
    /\ InitNoCampaign

LecturerHeaders == {BearerGood, BearerOther, BearerBad}

Statuses == {"Approved", "Rejected", ""}

Guides == { <<PlainLine>>, <<PlainLine, DatedLine(1)>> }

NextLecturer ==
    \/ \E has_file \in BOOLEAN, filename \in {NoFilename, PdfFilename} :
           api_handle_apology_submission(BearerStudent, has_file, filename)
    \/ \E auth_header \in LecturerHeaders, submission_id \in 0..MaxApologies,
          new_status \in Statuses, reason \in {"", "r"} :
           api_update_apology_status(auth_header, submission_id, new_status, reason)
    \/ \E auth_header \in LecturerHeaders, has_file \in BOOLEAN,
          module_id \in ModuleIds \cup {NoModule},
          filename \in {NoFilename, MdFilename, PdfFilename},
          content \in Guides :
           handle_guide_upload(auth_header, has_file, module_id, filename, content)

SpecLecturer == InitLecturer /\ [][NextLecturer]_vars

\* the instant of the ticks after the class of module 1 on the first Monday
JustAfterClass == Combine(0, T0900 + 3600 + 60)

\* the callers of send_email: the class of module 1 has just ended and has a
\* lecture scheduled, a survey with a prize was sent out, and s1 can apologise
InitMail ==
    /\ now = JustAfterClass
    /\ class_timetable = <<Session(1, 1, 1, T0900, T0900 + 3600)>>
    /\ students = Enrolment
    /\ lecture_schedules = {Lecture(1, 0)}
    /\ attendance_records = EmptyBag
    /\ InitIdle
    /\ campaigns = (1 :> Campaign("FEEDBACK_SURVEY", WifiIncentive, "Sent"))
    /\ campaign_questions = { Question(1, 1, NoAnswer) }

\* students answer the survey, the lecturer draws the winner and decides on the
\* apology of s1, and the scheduler ticks
NextMail ==
    \/ \E i \in 1..2 : DrawAnswer(i)
    \/ api_pick_winners(1)
    \/ api_handle_apology_submission(BearerStudent, TRUE, PdfFilename)
    \/ \E new_status \in {"Approved", "Rejected"} :
           api_update_apology_status(BearerGood, 1, new_status, "r")
    \/ unified_scheduler_job

SpecMail == InitMail /\ [][NextMail]_vars

\* no campaign exists; both students are in SODM401 or only one is
\* every student is enrolled in module 2: the module of campaigns has none
EnrolmentElsewhere ==
    [s \in StudentIds |-> [module_code |-> ModuleCode(2), email |-> TRUE]]

InitCreate ==
    /\ now = 0
    /\ class_timetable = <<Session(1, 1, 1, T0900, T0900 + 3600)>>
    /\ students \in EnrolmentChoices \cup {EnrolmentElsewhere}
    /\ lecture_schedules = {}
    /\ attendance_records = EmptyBag
    /\ InitIdle
    /\ InitNoCampaign

CreateHeaders == {BearerGood, BearerBad, BearerBroken}

\* lecturers create campaigns while store calls may raise, and s1 follows the
\* link of the first campaign
NextCreate ==
    \/ \E auth_header \in CreateHeaders, campaign_type \in CampaignTypes,
          questions \in QuestionLists, fault \in CreateFaults :
           api_create_campaign(auth_header, campaign_type, questions, fault)
    \/ api_get_campaign_for_student(Token(1, "s1", 0, TRUE))

SpecCreate == InitCreate /\ [][NextCreate]_vars

\* the simulated times an operator sets: shortly before 18:00 of the first
\* Sunday, 18:00 of the first Sunday and 18:00 of the second
ClockStarts ==
    { Combine(6, 18 * 3600 - 10), Combine(6, 18 * 3600), Combine(13, 18 * 3600) }

\* an operator sets the simulated clock
SetClock ==
    /\ BagCardinality(job_runs.weekly) < MaxWeeklyRuns
    /\ \E override_enabled \in BOOLEAN, simulated_datetime \in ClockStarts :
           api_system_time_control("POST", BearerGood, override_enabled, simulated_datetime)

\* the scheduler ticks while the host clock runs and an operator sets the
\* simulated clock
NextClock == scheduler_tick \/ SetClock \/ HostTick

SpecClock == InitTime /\ [][NextClock]_vars

\* the instants of the end-of-class sweep: the first Monday at 09:00, at the end
\* of the class of 09:00, 60 and 300 seconds after it, one second later, 60
\* seconds after the end of the class of 11:00 and at 17:30, and the Tuesday
\* at 10:01
SweepTimes ==
    { Combine(0, tod) : tod \in { T0900, T0900 + 3600, T0900 + 3660, T0900 + 3900,
                                  T0900 + 3901, T0900 + 3 * 3600 + 60,
                                  17 * 3600 + 1800 } }
        \cup { Combine(1, T0900 + 3660) }

\* the simulated clock moves on to the next of these instants
AdvanceClock ==
    /\ LET later == { t \in SweepTimes : t > now }
       IN  /\ later # {}
           /\ now' = CHOOSE t \in later : \A u \in later : t <= u
    /\ UNCHANGED <<tables, attendance_records, marking, outsideAttendance>>

\* module 1 meets on Monday at 09:00, or at 09:00 and at 11:00
SweepTimetables ==
    { <<Session(1, 1, 1, T0900, T0900 + 3600)>>,
      <<Session(1, 1, 1, T0900, T0900 + 3600),
        Session(2, 1, 1, T0900 + 2 * 3600, T0900 + 3 * 3600)>> }

\* the Monday class of module 1 is about to begin; its lecture is scheduled or
\* not, and s1 has been marked present or nobody has
InitSweep ==
    /\ now = Combine(0, T0900)
    /\ class_timetable \in SweepTimetables
    /\ students \in EnrolmentChoices
    /\ lecture_schedules \in { {}, {Lecture(1, 0)} }
    /\ attendance_records \in
           { EmptyBag,
             SetToBag({ [student_id |-> "s1", module_id |-> 1, status |-> "present",
                         created_at |-> Combine(0, T0900)] }) }
    /\ InitIdle
    /\ InitNoCampaign

\* the scheduler ticks and the process is started again while the clock runs
NextSweep ==
    \/ unified_scheduler_job
    \/ Restart(Combine(0, T0900))
    \/ AdvanceClock

SpecSweep == InitSweep /\ [][NextSweep]_vars

\* module 1 meets once on the Monday, both students are enrolled in it, its
\* lecture is scheduled and s1 has been marked present
InitSweepOnce ==
    /\ InitSweep
    /\ Len(class_timetable) = 1
    /\ students = Enrolment
    /\ lecture_schedules = {Lecture(1, 0)}
    /\ attendance_records # EmptyBag

\* the scheduler keeps ticking, the clock keeps running and a process that can
\* be started again is
SpecSweepLive ==
    /\ InitSweepOnce
    /\ [][NextSweep]_vars
    /\ WF_vars(unified_scheduler_job)
    /\ WF_vars(AdvanceClock)
    /\ WF_vars(Restart(Combine(0, T0900)))

----------------------------------------------------------------------------
(* Claims about the attendance window and the marking of attendance *)

\* the window [T, T+30min] of a session, as times of day of one day
InWindow(session, t) ==
    /\ session.day_of_week = Weekday(t) + 1
    /\ session.start_time <= TimeOf(t)
    /\ TimeOf(t) <= session.start_time + ATTENDANCE_WINDOW_MINUTES * 60

\* C1: for every timetable entry of the current simulated weekday with start
\* time T, get_current_class_session returns that entry whenever the time of
\* day lies in [T, T+30min] and no other entry's window contains it, and it
\* returns no session at T+30min+1s when no entry's window contains that time.
C1_AttendanceWindow ==
    \A i \in DOMAIN class_timetable :
        LET e == class_timetable[i]
            t == poll.current_time
        IN  /\ ( /\ InWindow(e, t)
                 /\ \A j \in DOMAIN class_timetable : j # i => ~InWindow(class_timetable[j], t) )
               => poll.session = e
            /\ ( /\ e.day_of_week = Weekday(t) + 1
                 /\ TimeOf(t) = e.start_time + ATTENDANCE_WINDOW_MINUTES * 60 + 1
                 /\ \A j \in DOMAIN class_timetable : ~InWindow(class_timetable[j], t) )
               => poll.session = NoSession

\* the statement of C1 for the sessions whose window ends before midnight
C1_WindowBeforeMidnight ==
    \A i \in DOMAIN class_timetable :
        LET e == class_timetable[i]
            t == poll.current_time
        IN  e.start_time + ATTENDANCE_WINDOW_MINUTES * 60 < SecondsPerDay =>
            /\ ( /\ InWindow(e, t)
                 /\ \A j \in DOMAIN class_timetable : j # i => ~InWindow(class_timetable[j], t) )
               => poll.session = e
            /\ ( /\ e.day_of_week = Weekday(t) + 1
                 /\ TimeOf(t) = e.start_time + ATTENDANCE_WINDOW_MINUTES * 60 + 1
                 /\ \A j \in DOMAIN class_timetable : ~InWindow(class_timetable[j], t) )
               => poll.session = NoSession

\* a poll at the start of a session that begins at 23:30 or later
C1_LateSessionPolled ==
    \E i \in DOMAIN class_timetable :
        /\ class_timetable[i].start_time >= T2330
        /\ InWindow(class_timetable[i], poll.current_time)

\* C2: of two mark-attendance calls made one after the other for the same
\* recognized student and module on the same simulated day, the first is
\* answered 200 and inserts one present row, the second is answered 409 and
\* inserts nothing.  A call that finds no row of the student for the module
\* on the day is answered 200; a call begun after a 200 for the same student,
\* module and day is answered 409; the rows of the table are exactly one per
\* 200 answer.
C2_DuplicateConflict ==
    /\ \A r \in 1..MaxReq :
          /\ (req[r].pc = "done" /\ req[r].after_ok)
                => (req[r].status = 409 /\ req[r].inserted = 0)
          /\ (req[r].pc = "done" /\ req[r].checked /\ ~req[r].had_record)
                => (req[r].status = 200 /\ req[r].inserted = 1)
          /\ (req[r].pc = "insert") => ~req[r].had_record
    /\ BagCardinality(attendance_records)
          = Cardinality({ r \in 1..MaxReq : req[r].status = 200 })
    /\ \A row \in BagToSet(attendance_records) : row.status = "present"

\* a first call answered 200 and a later call for the same student, module
\* and day answered 409
C2_SecondCallRejected ==
    \E q, r \in 1..MaxReq :
        /\ q # r
        /\ req[q].status = 200
        /\ req[r].pc = "done" /\ req[r].after_ok /\ req[r].status = 409

\* C3: in every reachable state, interleaved mark-attendance requests
\* included, there is at most one present row per (student, module, day).
C3_AtMostOnePresent ==
    \A s \in StudentIds, m \in ModuleIds, d \in 0..(MaxDay + 1) :
        BagCardinality(RowsWhere(attendance_records,
            LAMBDA x : /\ x.student_id = s /\ x.module_id = m
                       /\ x.status = "present" /\ DateOf(x.created_at) = d)) <= 1

----------------------------------------------------------------------------
(* Claims about the startup backfill *)

\* C4: running backfill_missed_attendance twice in a row over unchanged
\* lecture schedules, enrolments, records and simulated date leaves the
\* attendance records after the second run equal to those after the first.
C4_BackfillIdempotent ==
    ( /\ Len(backfill_log) = 2
      /\ backfill_log[2].before = backfill_log[1].after
      /\ backfill_log[2].date = backfill_log[1].date )
    => backfill_log[2].after = backfill_log[1].after

\* two runs in a row, the first of which inserted absent rows
C4_SecondRunAfterInsert ==
    /\ Len(backfill_log) = 2
    /\ backfill_log[2].before = backfill_log[1].after
    /\ backfill_log[2].date = backfill_log[1].date
    /\ backfill_log[1].after # backfill_log[1].before
    /\ attendance_records = backfill_log[2].after

----------------------------------------------------------------------------
(* Claims about the at-risk warnings *)

\* the messages of a level the relay accepted for a student and a module
Delivered(s, m, level) ==
    BagCardinality(RowsWhere(outbox,
        LAMBDA x : x.to = s /\ x.kind = "at_risk" /\ x.ref = <<m, level>>))

\* the ledger rows of a level for a student and a module
LedgerRows(s, m, level) ==
    BagCardinality(RowsWhere(at_risk_warnings,
        LAMBDA x : x.student_id = s /\ x.module_id = m /\ x.warning_level = level))

\* C5 as stated: after a call of check_and_send_at_risk_warning that counts
\* exactly 16, 18 or 21 absences the student has received exactly one email
\* of that level, and a call made while a ledger row of the level exists
\* sends no email of the level.
C5_ExactlyOneEmail ==
    \A level \in Levels :
        /\ (risk_call.made /\ risk_call.total_absences = level)
               => Delivered(risk_call.student_id, risk_call.module_id, level) = 1
        /\ (risk_call.made /\ level \in risk_call.existing)
               => level \notin risk_call.attempts

\* C5, amended: a student never receives more than one email of a level, has
\* received one exactly when a ledger row of the level exists, and after a
\* call that counts exactly 16, 18 or 21 absences has received the email of
\* that level iff the relay accepted it in this call or a ledger row existed
\* before; the call tries to send exactly when no ledger row exists, and a
\* call made while a ledger row of the level exists sends nothing.
C5_AtMostOneEmail ==
    /\ \A s \in StudentIds, m \in ModuleIds, level \in Levels :
          /\ Delivered(s, m, level) <= 1
          /\ Delivered(s, m, level) = LedgerRows(s, m, level)
    /\ \A level \in Levels :
          /\ (risk_call.made /\ risk_call.total_absences = level)
                => /\ Delivered(risk_call.student_id, risk_call.module_id, level)
                         = IF level \in risk_call.existing \/ level \in risk_call.sent
                           THEN 1 ELSE 0
                   /\ risk_call.attempts = {level} \ risk_call.existing
          /\ (risk_call.made /\ level \in risk_call.existing)
                => level \notin risk_call.attempts
    /\ risk_call.sent \subseteq risk_call.attempts
    /\ risk_call.attempts \subseteq {risk_call.total_absences}

\* a call that counts exactly 16 absences while the ledger row of level 16
\* exists, and a student who has received the emails of all three levels
C5_CallWithLedgerRow ==
    /\ risk_call.made
    /\ risk_call.total_absences = thresholds[1]
    /\ thresholds[1] \in risk_call.existing
    /\ risk_call.attempts = {}
    /\ \E s \in StudentIds : \A level \in Levels : Delivered(s, ModuleOf(s), level) = 1

----------------------------------------------------------------------------
(* Claims about the campaign links *)

\* the link of the last request carries its signature and is not too old
Fresh(call) == call.token.signed /\ call.age <= TokenMaxAge

\* the last request changed no table of the answers
NoRowWritten(call) ==
    call.rows_before = <<BagCardinality(campaign_participants),
                         BagCardinality(campaign_responses)>>

\* the last request added one participant row and one response row
OneAnswerWritten(call) ==
    /\ BagCardinality(campaign_participants) = call.rows_before[1] + 1
    /\ BagCardinality(campaign_responses) = call.rows_before[2] + 1
    /\ BagCardinality(RowsWhere(campaign_responses,
           LAMBDA x : /\ x.campaign_id = call.token.campaign_id
                      /\ x.student_id = call.token.student_id)) = 1

\* C6 as stated: with a valid token the first submit is answered 201, every
\* later submit with the same token is answered 409 and writes no row, and a
\* get-campaign-for-student after the accepted submit is answered 409.
C6_SubmitOnce ==
    /\ (campaign_call.endpoint = "submit" /\ Fresh(campaign_call) /\ ~campaign_call.repeat)
           => campaign_call.status = 201
    /\ (campaign_call.endpoint = "submit" /\ Fresh(campaign_call) /\ campaign_call.repeat)
           => (campaign_call.status = 409 /\ NoRowWritten(campaign_call))
    /\ (campaign_call.endpoint = "get" /\ Fresh(campaign_call) /\ campaign_call.had_row)
           => campaign_call.status = 409

\* C6, amended: with a valid token, a submit that carries responses (with
\* numeric keys when the campaign is a quiz) and finds no participant row is
\* answered 201 and writes one participant and one response row; a submit
\* that carries responses and finds a participant row is answered 409; a
\* submit without responses is answered 400; a submit of a quiz with a key
\* that is no number is answered 500; none of the three writes a row; a
\* get-campaign-for-student that finds a participant row is answered 409.
C6_SubmitOnceWithResponses ==
    /\ (campaign_call.endpoint = "submit" /\ Fresh(campaign_call))
           => IF ~campaign_call.filled
              THEN campaign_call.status = 400 /\ NoRowWritten(campaign_call)
              ELSE IF campaign_call.had_row
              THEN campaign_call.status = 409 /\ NoRowWritten(campaign_call)
              ELSE IF campaign_call.quiz /\ ~campaign_call.keys_ok
              THEN campaign_call.status = 500 /\ NoRowWritten(campaign_call)
              ELSE campaign_call.status = 201 /\ OneAnswerWritten(campaign_call)
    /\ (campaign_call.endpoint = "get" /\ Fresh(campaign_call))
           => IF campaign_call.had_row
              THEN campaign_call.status = 409
              ELSE campaign_call.status = 200
    /\ campaign_call.endpoint = "get" => NoRowWritten(campaign_call)

\* a submit with responses, answered 409 because the link was already used
C6_SecondSubmitRefused ==
    /\ campaign_call.endpoint = "submit"
    /\ Fresh(campaign_call)
    /\ campaign_call.filled
    /\ campaign_call.repeat
    /\ campaign_call.had_row
    /\ campaign_call.status = 409

\* the errors that tell the link is invalid or expired
LinkErrors == {"link_invalid_or_expired", "link_may_have_expired"}

\* C7 as stated: a request of either endpoint whose token is older than
\* 259200 seconds or does not carry its signature is answered with the error
\* that the link is invalid or expired, and writes no row.
C7_StaleTokenLinkError ==
    (campaign_call.endpoint # "" /\ campaign_call.token # NoToken /\ ~Fresh(campaign_call))
        => /\ campaign_call.error \in LinkErrors
           /\ campaign_call.status \in {400, 500}
           /\ NoRowWritten(campaign_call)

\* C7, amended: such a request writes no row and is answered 400 "link
\* invalid or expired" by get-campaign-for-student, 500 "link may have
\* expired" by a submit that carries responses, and 400 "invalid submission"
\* by a submit without responses.
C7_StaleTokenRejected ==
    (campaign_call.endpoint # "" /\ campaign_call.token # NoToken /\ ~Fresh(campaign_call))
        => /\ NoRowWritten(campaign_call)
           /\ campaign_call.endpoint = "get"
                 => (campaign_call.status = 400
                     /\ campaign_call.error = "link_invalid_or_expired")
           /\ (campaign_call.endpoint = "submit" /\ campaign_call.filled)
                 => (campaign_call.status = 500
                     /\ campaign_call.error = "link_may_have_expired")
           /\ (campaign_call.endpoint = "submit" /\ ~campaign_call.filled)
                 => (campaign_call.status = 400
                     /\ campaign_call.error = "invalid_submission")

\* a submit with responses and a signed token one second too old, refused
C7_ExpiredSubmitRefused ==
    /\ campaign_call.endpoint = "submit"
    /\ campaign_call.token.signed
    /\ campaign_call.age = TokenMaxAge + 1
    /\ campaign_call.filled
    /\ ~campaign_call.had_row
    /\ campaign_call.status = 500

\* the questions of a campaign an answer of the response matches
MatchedQuestions(row) ==
    { q \in campaign_questions :
        /\ q.campaign_id = row.campaign_id
        /\ q.correct_answer # NoAnswer
        /\ \E key \in DOMAIN row.response_data :
              IntOf(key) = q.id /\ row.response_data[key] = q.correct_answer }

\* C8: the score stored with the response of a quiz is the number of the
\* questions of the campaign whose submitted answer equals the stored correct
\* answer, and the score stored with the response of a survey is absent.
C8_StoredScore ==
    \A row \in BagToSet(campaign_responses) :
        IF campaigns[row.campaign_id].campaign_type = "WEEKLY_QUIZ"
        THEN row.score = Cardinality(MatchedQuestions(row))
        ELSE row.score = NoScore

\* no two keys of the response name the same question
OneKeyPerQuestion(row) ==
    \A j, k \in DOMAIN row.response_data : IntOf(j) = IntOf(k) => j = k

\* the statement of C8 for the responses in which no two keys name the same
\* question
C8_StoredScoreOneKeyPerQuestion ==
    \A row \in BagToSet(campaign_responses) :
        OneKeyPerQuestion(row)
            => IF campaigns[row.campaign_id].campaign_type = "WEEKLY_QUIZ"
               THEN row.score = Cardinality(MatchedQuestions(row))
               ELSE row.score = NoScore

\* a stored quiz response with two keys for the first question
C8_TwoKeysOneQuestion ==
    \E row \in BagToSet(campaign_responses) :
        /\ campaigns[row.campaign_id].campaign_type = "WEEKLY_QUIZ"
        /\ ~OneKeyPerQuestion(row)
        /\ row.score > Cardinality(MatchedQuestions(row))

----------------------------------------------------------------------------
(* Claims about the draw of the winners *)

\* the count an incentive text names, read off the text by eye
C9_NamedCount ==
    (AssignmentIncentive :> 5) @@ (WifiIncentive :> 1) @@ (PlainIncentive :> 1)

\* C9: a pick-winners request on a campaign whose incentive names N winners
\* (1 when it names none) and that has at least N participants is answered
\* 200, draws N different participants, writes one voucher for each of them
\* and completes the campaign; with fewer participants it is answered 400,
\* writes no voucher and leaves the status of the campaign.
C9_WinnersDrawn ==
    pick_call.made =>
        LET campaign == campaigns[pick_call.campaign_id]
            N == C9_NamedCount[campaign.incentive]
            drawn == BagToSet(pick_call.winners)
        IN  IF BagCardinality(pick_call.participants) >= N
            THEN /\ pick_call.status = 200
                 /\ BagCardinality(pick_call.winners) = N
                 /\ Cardinality({ w.student_id : w \in drawn }) = N
                 /\ \A w \in drawn : BagIn(w, pick_call.participants)
                 /\ BagCardinality(vouchers) = BagCardinality(pick_call.vouchers_before) + N
                 /\ \A w \in drawn :
                       BagCardinality(RowsWhere(vouchers,
                           LAMBDA v : /\ v.student_id = w.student_id
                                      /\ v.campaign_id = pick_call.campaign_id))
                         = 1 + BagCardinality(RowsWhere(pick_call.vouchers_before,
                                   LAMBDA v : /\ v.student_id = w.student_id
                                              /\ v.campaign_id = pick_call.campaign_id))
                 /\ campaign.status = "COMPLETED"
            ELSE /\ pick_call.status = 400
                 /\ pick_call.winners = EmptyBag
                 /\ vouchers = pick_call.vouchers_before
                 /\ campaign.status = pick_call.status_before

\* five winners drawn among six participants
C9_FiveOfSixDrawn ==
    /\ pick_call.made
    /\ pick_call.status = 200
    /\ BagCardinality(pick_call.participants) = 6
    /\ BagCardinality(pick_call.winners) = 5
    /\ BagCardinality(vouchers) = 5

----------------------------------------------------------------------------
(* Claims about the weekly summary *)

\* the dates of the lectures of a module in the week before the week of a day
LecturesLastWeek(m, today) ==
    { l.lecture_date : l \in { x \in lecture_schedules :
        /\ x.module_id = m
        /\ x.lecture_date >= today - (today % 7) - 7
        /\ x.lecture_date <= today - (today % 7) - 1 } }

\* the lectures among them a student has a present record for
Attended(s, m, today) ==
    { d \in LecturesLastWeek(m, today) :
        \E x \in BagToSet(attendance_records) :
            /\ x.student_id = s
            /\ x.module_id = m
            /\ x.status = "present"
            /\ DateOf(x.created_at) = d }

\* the students of a module with a usable address
Addressable(m) ==
    { s \in DOMAIN students : students[s].module_code = ModuleCode(m) /\ students[s].email }

\* C10: after a run of send_weekly_summary_emails, for every module with at
\* least one lecture in the window, every student of the module with a usable
\* address is in the perfect group iff present at all the lectures, in the
\* zero group iff present at none, and is never in both.
C10_WeeklyPartition ==
    weekly_run.made =>
        \A m \in ModuleIds :
            LecturesLastWeek(m, weekly_run.today) # {} =>
                \A s \in Addressable(m) :
                    /\ s \in weekly_run.perfect[m]
                          <=> Attended(s, m, weekly_run.today)
                                  = LecturesLastWeek(m, weekly_run.today)
                    /\ s \in weekly_run.zero[m]
                          <=> Attended(s, m, weekly_run.today) = {}
                    /\ ~ (s \in weekly_run.perfect[m] /\ s \in weekly_run.zero[m])

\* the records of a student for a module dated in the week before the week of a day
RowsLastWeek(s, m, today) ==
    RowsWhere(attendance_records,
        LAMBDA x : /\ x.student_id = s
                   /\ x.module_id = m
                   /\ DateOf(x.created_at) >= today - (today % 7) - 7
                   /\ DateOf(x.created_at) <= today - (today % 7) - 1)

\* what holds of the groups: they hold students with an address and a record
\* of the module in the window, the perfect group those with as many present
\* records as there are lectures, the zero group those with no present record,
\* and no student is in both.
C10_PartitionByRecords ==
    weekly_run.made =>
        \A m \in ModuleIds, s \in DOMAIN students :
            LET N == Cardinality(LecturesLastWeek(m, weekly_run.today))
                rows == RowsLastWeek(s, m, weekly_run.today)
                presents == BagCardinality(RowsWhere(rows, LAMBDA x : x.status = "present"))
                counted == N > 0 /\ rows # EmptyBag /\ students[s].email
            IN  /\ s \in weekly_run.perfect[m] <=> (counted /\ presents = N)
                /\ s \in weekly_run.zero[m] <=> (counted /\ presents = 0)
                /\ ~ (s \in weekly_run.perfect[m] /\ s \in weekly_run.zero[m])

\* a run over a week of two lectures: one student present at both is in the
\* perfect group, the other has an address, no record and is in no group
C10_AbsentWithoutRecord ==
    /\ weekly_run.made
    /\ Cardinality(LecturesLastWeek(1, weekly_run.today)) = 2
    /\ "s1" \in weekly_run.perfect[1]
    /\ "s2" \in Addressable(1)
    /\ RowsLastWeek("s2", 1, weekly_run.today) = EmptyBag
    /\ "s2" \notin weekly_run.zero[1]

----------------------------------------------------------------------------
(* C11: the simulated clock advances with the clock of the host *)

\* the last POST switched the override on with a simulated start, and
\* get_system_time was called after it
SetThenRead ==
    /\ time_set.made
    /\ time_set.override_enabled
    /\ time_set.simulated_datetime # NoTime
    /\ time_call.made

\* C11: after a POST at host time R0 with the override on and simulated start S,
\* every call of get_system_time at host time R0 + d returns S + d
C11_SimulatedAdvance ==
    SetThenRead =>
        time_call.returned = time_set.simulated_datetime + (time_call.at - time_set.at)

\* what holds of the code: the same, for the calls before which no read of the
\* settings row has failed since the POST
C11_AdvanceWhileFetched ==
    (SetThenRead /\ ~ time_call.failed_since_set) =>
        time_call.returned = time_set.simulated_datetime + (time_call.at - time_set.at)

\* a call after the POST that read the row, after an earlier read had failed, and
\* returned another time than S + d
C11_EpochMovedAfterFailedFetch ==
    /\ SetThenRead
    /\ time_call.fetch = "ok"
    /\ time_call.failed_since_set
    /\ time_call.at > time_set.at
    /\ time_call.returned # time_set.simulated_datetime + (time_call.at - time_set.at)

\* a call a day and more after the POST that returned S + d
C11_ReadADayLater ==
    /\ SetThenRead
    /\ ~ time_call.failed_since_set
    /\ time_call.at - time_set.at > SecondsPerDay
    /\ time_call.returned = time_set.simulated_datetime + (time_call.at - time_set.at)

----------------------------------------------------------------------------
(* C12: the master embedding is the mean of the embeddings that were produced *)

\* the positions of the captures of a request that produced an embedding
Produced(images_data) == { i \in DOMAIN images_data : images_data[i].kind = "face" }

\* the sum of the k-th components of the embeddings at the positions in a set
RECURSIVE SumOver(_, _, _)
SumOver(positions, images_data, k) ==
    IF positions = {} THEN 0
    ELSE LET i == CHOOSE j \in positions : TRUE
         IN  images_data[i].emb[k] + SumOver(positions \ {i}, images_data, k)

\* C12: after complete-registration answered 200, each component of the stored
\* master embedding is the arithmetic mean of that component over exactly the
\* captures that produced an embedding; for [1,1] and [3,3] it is [2,2]
C12_MasterEmbeddingIsMean ==
    registration.status = 200 =>
        LET images_data == registration.images_data
            stored == embedding[registration.user]
            n == Cardinality(Produced(images_data))
        IN  /\ n > 0
            /\ DOMAIN stored = 1..EmbeddingSize
            /\ \A k \in 1..EmbeddingSize :
                   /\ stored[k][2] > 0
                   /\ stored[k][1] * n = stored[k][2] * SumOver(Produced(images_data), images_data, k)
            /\ (images_data = <<Capture(<<1, 1>>), Capture(<<3, 3>>)>>
                    => stored = <<<<2, 1>>, <<2, 1>>>>)

\* a request with a capture without a face and a capture with embedding [3,3]
\* answered 200 and [3,3] is stored
C12_FailedCaptureLeftOut ==
    /\ registration.status = 200
    /\ registration.images_data = <<FailedCapture("no_face"), Capture(<<3, 3>>)>>
    /\ embedding[registration.user] = <<<<3, 1>>, <<3, 1>>>>

\* a request with captures [1,1] and [3,3] answered 200 and [2,2] is stored
C12_TwoCapturesAveraged ==
    /\ registration.status = 200
    /\ registration.images_data = <<Capture(<<1, 1>>), Capture(<<3, 3>>)>>
    /\ embedding[registration.user] = <<<<2, 1>>, <<2, 1>>>>

----------------------------------------------------------------------------
(* C13: no identity, no entry *)

\* a header that is absent, is not `Bearer ' and a token, or whose token does not
\* verify
Unverified(auth_header) ==
    IF auth_header = NoHeader THEN TRUE
    ELSE IF ~ StartsWith(auth_header, BearerPrefix) THEN TRUE
    ELSE get_user(SecondField(auth_header)) \in {NoUser, Raises}

\* C13: a request to a protected route without a header, with a malformed header
\* or with a token that does not verify (its verification raising included) is
\* answered 401 (and so has written nothing)
C13_UnverifiedUnauthorized ==
    /\ (route_call.route # "none" /\ Unverified(route_call.auth_header))
           => route_call.status = 401
    /\ (registration.pc # "idle" /\ Unverified(registration.auth_header))
           => (registration.pc = "done" /\ registration.status = 401)

\* what holds of the code on the routes that test for the prefix `Bearer ': such
\* a request is answered 401, or 500 when the verification raised, and it leaves
\* the settings row, the cache of the clock and the students as they were
C13_UnverifiedWritesNothing ==
    [][(route_call' # route_call /\ Unverified(route_call'.auth_header))
          => /\ route_call'.status =
                    IF /\ BearerHeader(route_call'.auth_header)
                       /\ get_user(SecondField(route_call'.auth_header)) = Raises
                       /\ route_call'.route # "system-time"
                    THEN 500 ELSE 401
             /\ UNCHANGED <<timing, students, embedding, outbox>>]_vars

\* get-apologies answered 500 to a token whose verification raised
C13_VerificationRaisedAnswered500 ==
    /\ route_call.route = "get-apologies"
    /\ route_call.auth_header = BearerBroken
    /\ route_call.status = 500

\* complete-registration wrote the row of a student for a header that is not a
\* bearer header
C13_MalformedHeaderWrote ==
    /\ registration.auth_header = BasicStudent
    /\ registration.status = 200
    /\ embedding["s1"] # NoEmbedding

----------------------------------------------------------------------------
(* C14: a lecturer changes the rows of the own modules only *)

\* a request that was just answered came with a verified identity that is not the
\* lecturer of the module it is about
ByAnotherThanOwner(call) ==
    /\ ~ Unverified(call.auth_header)
    /\ call.module_id \in ModuleIds
    /\ ModuleLecturer(call.module_id) # get_user(SecondField(call.auth_header))

\* C14: upload-guide and update-apology-status, asked by a verified identity that
\* does not own the module of the rows, refuse (Forbidden, or BadRequest when a
\* part of the request is missing) and leave the store unchanged
C14_OnlyOwnerChanges ==
    [][(/\ route_call' # route_call
        /\ route_call'.route \in {"upload-guide", "update-apology-status"}
        /\ ByAnotherThanOwner(route_call'))
          => /\ route_call'.status \in {400, 403}
             /\ UNCHANGED <<lecture_schedules, apology_submissions, outbox>>]_vars

\* what holds of the code: the same for upload-guide alone
C14_GuideOnlyByOwner ==
    [][(/\ route_call' # route_call
        /\ route_call'.route = "upload-guide"
        /\ ByAnotherThanOwner(route_call'))
          => /\ route_call'.status \in {400, 403}
             /\ UNCHANGED <<lecture_schedules, apology_submissions, outbox>>]_vars

\* the lecturer of module 2 decided on the apology of a student of module 1
C14_DecidedByAnotherLecturer ==
    /\ route_call.route = "update-apology-status"
    /\ route_call.auth_header = BearerOther
    /\ route_call.module_id = 1
    /\ route_call.status = 200
    /\ \E i \in DOMAIN apology_submissions : apology_submissions[i].status = "Approved"

\* the lecturer of module 2 was refused the upload of a guide of module 1
C14_GuideRefused ==
    /\ route_call.route = "upload-guide"
    /\ route_call.auth_header = BearerOther
    /\ route_call.module_id = 1
    /\ route_call.status = 403

----------------------------------------------------------------------------
(* C15: the campaign a student reads carries no answer key *)

Answers == {"A", "B", NoAnswer}

\* the sets of questions that differ from a set in the correct answers only
Rekeyed(questions) ==
    LET ids == { q.id : q \in questions }
    IN  { { Question(q.id, q.campaign_id, key[q.id]) : q \in questions } :
              key \in [ids -> Answers] }

\* C15: the campaign get-campaign-for-student answers with is the same for every
\* choice of the stored correct answers of the questions
C15_PayloadWithoutAnswerKey ==
    (campaign_call.endpoint = "get" /\ campaign_call.status = 200) =>
        \A questions \in Rekeyed(campaign_questions) :
            campaign_payload(campaign_call.token.campaign_id, questions) = campaign_read

\* a student read the quiz and the answer holds the correct answer of a question
C15_AnswerKeyRead ==
    /\ campaign_call.endpoint = "get"
    /\ campaign_call.status = 200
    /\ \E q \in campaign_read.campaign_questions : q.correct_answer = "B"

----------------------------------------------------------------------------
(* C16 *)

\* the sessions whose end the tick at t found to have just passed
JustEnded(t) ==
    { i \in DOMAIN class_timetable :
        /\ class_timetable[i].day_of_week = Weekday(t) + 1
        /\ t > Combine(DateOf(t), class_timetable[i].end_time)
        /\ t - Combine(DateOf(t), class_timetable[i].end_time) <= 300 }

\* C16: a failure of the mail relay does not reach the caller of send_email and
\* the caller completes its own writes.  When the relay refused the messages of
\* a pick-winners request, the request still answers 200, has inserted one
\* voucher for each winner and has set the campaign to COMPLETED; when it refused
\* the message of a decision on an apology, the request still answers 200 and
\* the submission has the new status; when it refused the messages of a tick of
\* the scheduler, every student enrolled in the module of a class that had just
\* ended has a record of the module on that day.
C16_EmailFailureLeavesWrites ==
    /\ (pick_call.made /\ pick_call.relay = "refused") =>
           /\ pick_call.status = 200
           /\ BagCardinality(vouchers)
                  = BagCardinality(pick_call.vouchers_before)
                        + BagCardinality(pick_call.winners)
           /\ \A w \in BagToSet(pick_call.winners) :
                  \E v \in BagToSet(vouchers) :
                      v.student_id = w.student_id /\ v.campaign_id = pick_call.campaign_id
           /\ campaigns[pick_call.campaign_id].status = "COMPLETED"
    /\ (route_call.decision # <<>>) =>
           (route_call.decision[3] = "refused" =>
               /\ route_call.status = 200
               /\ apology_submissions[route_call.decision[1]].status
                      = route_call.decision[2])
    /\ (job_runs.relay = "refused") =>
           \A i \in JustEnded(job_runs.at) :
               \A s \in EnrolledIn(class_timetable[i].module_id) :
                   \E x \in BagToSet(attendance_records) :
                       /\ x.student_id = s
                       /\ x.module_id = class_timetable[i].module_id
                       /\ DateOf(x.created_at) = DateOf(job_runs.at)

\* the relay refused every message: the winner has a voucher, the campaign is
\* completed, the apology is approved, the students of the class are marked
\* absent, and the outbox is empty
C16_WritesWithoutEmail ==
    /\ pick_call.made /\ pick_call.relay = "refused"
    /\ BagCardinality(vouchers) = 1
    /\ campaigns[1].status = "COMPLETED"
    /\ route_call.decision = <<1, "Approved", "refused">>
    /\ apology_submissions[1].status = "Approved"
    /\ job_runs.relay = "refused"
    /\ BagCardinality(attendance_records) = 2
    /\ outbox = EmptyBag

----------------------------------------------------------------------------
(* C17 *)

\* C17: when a store call raised in the create-campaign flow after the campaign
\* row was inserted (a question insert, an option insert, the fetch of the
\* campaign or of the students for the dispatch, or the update of the status),
\* the status of the campaign is Failed when the request has finished.
C17_FailedAfterException ==
    (create_call.made /\ create_call.campaign_id # 0 /\ create_call.fault # NoFault) =>
        campaigns[create_call.campaign_id].status = "Failed"

\* an exception of a question insert or an option insert reaches the except of
\* the route: the request answers 500 and the status is Failed
C17_InsertFaultFailed ==
    (create_call.made /\ create_call.fault[1] \in {"question_insert", "option_insert"}) =>
        /\ create_call.status = 500
        /\ campaigns[create_call.campaign_id].status = "Failed"

\* the fetch of the students raised inside send_campaign_emails: the request
\* answered 201, nothing was mailed and the campaign is left in Sending
C17_SendingAfterDispatchFault ==
    /\ create_call.made
    /\ create_call.fault = <<"fetch_students", 0>>
    /\ create_call.status = 201
    /\ campaigns[create_call.campaign_id].status = "Sending"
    /\ outbox = EmptyBag

\* the update of the status raised after the messages were handed over
C17_SendingAfterMails ==
    /\ create_call.made
    /\ create_call.fault = <<"status_update", 0>>
    /\ campaigns[create_call.campaign_id].status = "Sending"
    /\ outbox # EmptyBag

----------------------------------------------------------------------------
(* C18 *)

\* how many times the weekly summary was triggered by ticks of simulated day d
TriggersOn(d) ==
    BagCardinality(RowsWhere(job_runs.weekly, LAMBDA t : DateOf(t) = d))

\* C18: over the ticks of one process run, with the simulated clock set between
\* ticks or not, send_weekly_summary_emails is triggered at most once for a
\* simulated calendar day, and only by ticks whose simulated time is a Sunday
\* with hour 18 or later.
C18_WeeklyOncePerDay ==
    \A t \in BagToSet(job_runs.weekly) :
        /\ TriggersOn(DateOf(t)) <= 1
        /\ Weekday(t) = 6
        /\ TimeOf(t) >= 18 * 3600

\* every trigger was made by a tick of a Sunday at 18:00 or later
C18_OnlySundayEvening ==
    \A t \in BagToSet(job_runs.weekly) : Weekday(t) = 6 /\ TimeOf(t) >= 18 * 3600

\* the summary was triggered for the first Sunday, then the clock was set to
\* the second Sunday and back, and the summary was triggered for the first
\* Sunday again
C18_TriggeredTwiceForOneDay ==
    /\ TriggersOn(6) = 2
    /\ TriggersOn(13) = 1
    /\ last_run_times.weekly_summary = 6

----------------------------------------------------------------------------
(* C19 *)

\* the end of the i-th session of the first Monday has passed
EndPassed(i) ==
    IF i \in DOMAIN class_timetable
    THEN now > Combine(0, class_timetable[i].end_time)
    ELSE FALSE

\* the student is enrolled in the module of the i-th session
EnrolledFor(s, i) ==
    IF i \in DOMAIN class_timetable
    THEN s \in EnrolledIn(class_timetable[i].module_id)
    ELSE FALSE

\* the student has a record of the module on the day
HasRecordOn(s, m, d) ==
    \E x \in BagToSet(attendance_records) :
        x.student_id = s /\ x.module_id = m /\ DateOf(x.created_at) = d

\* C19: for every session of a simulated day, once its end time has passed and
\* the scheduler keeps ticking, every student enrolled in the module of the
\* session eventually has a record of the module on that day (an absent one if
\* there was none), also when no tick was made in the minutes after the class.
C19_EventuallyMarked ==
    \A i \in 1..2 : \A s \in StudentIds :
        (EndPassed(i) /\ EnrolledFor(s, i)) ~> HasRecordOn(s, 1, 0)

\* a tick made within 300 seconds after the end of a class leaves every student
\* enrolled in its module with a record of the module on that day
C19_TickJustAfterMarks ==
    (job_runs.at # NoDate) =>
        \A i \in DOMAIN class_timetable :
            ( /\ class_timetable[i].day_of_week = Weekday(job_runs.at) + 1
              /\ job_runs.at > Combine(DateOf(job_runs.at), class_timetable[i].end_time)
              /\ job_runs.at - Combine(DateOf(job_runs.at), class_timetable[i].end_time)
                     <= 300 ) =>
                \A s \in EnrolledIn(class_timetable[i].module_id) :
                    HasRecordOn(s, class_timetable[i].module_id, DateOf(job_runs.at))

\* more than 300 seconds after the end of every class of module 1 on the first
\* Monday, with a record of the module on that day in the store, no step (a
\* tick, a start of the process with its backfill, the running clock) gives a
\* student without a record of that day one
C19_MissedStaysMissed ==
    [][ \A s \in StudentIds :
          ( /\ \A i \in DOMAIN class_timetable :
                    class_timetable[i].module_id = 1 =>
                        now > Combine(0, class_timetable[i].end_time) + 300
            /\ \E x \in StudentIds : HasRecordOn(x, 1, 0)
            /\ ~ HasRecordOn(s, 1, 0) ) =>
                ~ HasRecordOn(s, 1, 0)' ]_vars

\* no tick was made within 300 seconds after the class of 09:00; the process was
\* started again on the Tuesday, with the lecture of the Monday scheduled, and
\* has ticked: s1, marked present, has a record of the Monday and s2 has none
C19_NeverMarked ==
    /\ now = Combine(1, T0900 + 3660)
    /\ job_runs.at = now
    /\ job_runs.starts = 1
    /\ Len(class_timetable) = 1
    /\ lecture_schedules = {Lecture(1, 0)}
    /\ "s2" \in EnrolledIn(1)
    /\ HasRecordOn("s1", 1, 0)
    /\ ~ HasRecordOn("s2", 1, 0)

----------------------------------------------------------------------------
(* C20 *)

\* the absent rows of a student for a module stamped on a day
AbsentRowsOfDay(s, m, d) ==
    BagCardinality(RowsWhere(attendance_records,
        LAMBDA x : /\ x.student_id = s
                   /\ x.module_id = m
                   /\ x.status = "absent"
                   /\ DateOf(x.created_at) = d))

\* C20: after any sequence of ticks of the scheduler and starts of the process,
\* which clear the markers of the sessions gone through, no student has more
\* than one absent record for the same module and the same simulated day.
C20_NoDuplicateAbsent ==
    \A x \in BagToSet(attendance_records) :
        AbsentRowsOfDay(x.student_id, x.module_id, DateOf(x.created_at)) <= 1

\* the class of 09:00 was gone through, the process was started again and the
\* class was gone through a second time: s2 has one absent row of that Monday
C20_ReprocessedWithoutDuplicate ==
    /\ job_runs.starts = 1
    /\ CopiesIn(<<0, 1>>, job_runs.processed) = 2
    /\ AbsentRowsOfDay("s2", 1, 0) = 1

----------------------------------------------------------------------------
(* C21 *)

\* C21: the register handler makes at most 5 passes of the loop that confirms
\* the user and at most 5 passes of the loop that writes the profile, whatever
\* each pass does (it raises, it returns nothing, it returns data)
C21_AtMostFiveAttempts ==
    /\ register.polls <= max_retries
    /\ register.writes <= max_retries

\* passes that raise are counted: after the fifth the handler has answered 500
C21_FiveRaisesAnswer500 ==
    /\ register.retry_count <= max_retries
    /\ register.retry_count = max_retries =>
           (register.pc = "done" /\ register.status = 500)

\* the sixth pass of the loop that writes the profile: no row has the id of the
\* user, every update returned nothing and no pass was counted
C21_SixthProfileWrite ==
    /\ register.pc = "write"
    /\ register.writes = max_retries + 1
    /\ register.retry_count = 0
    /\ register.user_id \notin DOMAIN students

----------------------------------------------------------------------------
(* C22 *)

\* C22: complete-registration makes at most 3 passes of the loop that writes the
\* master embedding and the module code, whatever each pass returns, and has
\* answered 500 once 3 passes have failed
C22_AtMostThreeAttempts ==
    /\ registration.attempts <= 3
    /\ registration.pc = "update" => registration.attempts < 3

\* 200 is answered only by the pass whose update wrote the row of the student:
\* the row then holds the master embedding and the module code of the request;
\* passes that raise are counted, and after the third the handler has answered 500
C22_OkOnlyAfterUpdate ==
    /\ (registration.pc = "done" /\ registration.status = 200) =>
           /\ embedding[registration.user] = registration.master_embedding
           /\ students[registration.user].module_code = registration.module_code
    /\ registration.retry_count <= 3
    /\ registration.retry_count = 3 =>
           (registration.pc = "done" /\ registration.status = 500)

\* the fourth pass of the loop: every update returned nothing, no pass was counted
C22_FourthUpdate ==
    /\ registration.pc = "update"
    /\ registration.attempts = 4
    /\ registration.retry_count = 0

----------------------------------------------------------------------------
(* C23 *)

\* the register handler has answered with a failure after sign_up gave a user id
FailedAfterSignUp ==
    /\ register.pc = "done"
    /\ register.status >= 400
    /\ register.user_id # NoUserId

C23_LeftBehind ==
    /\ FailedAfterSignUp
    /\ register.status = 500
    /\ register.cleanup_raised
    /\ NewUserId \in auth_users
    /\ NewUserId \in DOMAIN students

----------------------------------------------------------------------------
(* C24 *)

\* a POST /api/system-time was let in and get_system_time was not called since
JustSet == time_set.made /\ ~ time_call.made

\* C24: every POST /api/system-time, whatever its body, overwrites the persisted
\* settings and sets real_time_at_set and last_checked of the cache to the real
\* time of the call
C24_BothPinned ==
    JustSet =>
        /\ system_settings = [override_enabled |-> time_set.override_enabled,
                              simulated_datetime |-> time_set.simulated_datetime]
        /\ system_time_settings.real_time_at_set = time_set.at
        /\ system_time_settings.last_checked = time_set.at

\* what every POST does: the persisted settings are those of the body, the cache
\* has the override of the body and last_checked at the real time of the call
C24_LastCheckedPinned ==
    JustSet =>
        /\ system_settings = [override_enabled |-> time_set.override_enabled,
                              simulated_datetime |-> time_set.simulated_datetime]
        /\ system_time_settings.override_enabled = time_set.override_enabled
        /\ system_time_settings.last_checked = time_set.at

\* after a POST with the override on and a simulated start, a POST with the
\* override on and no simulated start: the persisted settings have no simulated
\* start, and the next get_system_time, answered from the cache, returns a time
\* of the old simulated clock
C24_StaleSimulatedTime ==
    /\ time_set.made
    /\ time_set.override_enabled
    /\ time_set.simulated_datetime = NoTime
    /\ system_settings.simulated_datetime = NoTime
    /\ time_call.made
    /\ time_call.fetch = "cached"
    /\ ~ time_call.failed_since_set
    /\ time_call.returned # time_call.at

----------------------------------------------------------------------------
(* C25 *)

\* the rows of a module stamped on a date
RowsOfPair(records, m, d) ==
    RowsWhere(records, LAMBDA x : x.module_id = m /\ DateOf(x.created_at) = d)

\* the dates of the lectures and of the rows after a run
DatesOfRun(run) ==
    { l.lecture_date : l \in lecture_schedules } \cup
    { DateOf(x.created_at) : x \in BagToSet(run.after) }

\* one absent row stamped 17:00:00 on the date for every student of the module
OneAbsentEach(m, d) ==
    SetToBag({ [student_id |-> s, module_id |-> m, status |-> "absent",
                created_at |-> Combine(d, 17 * 3600)] :
               s \in { x \in DOMAIN students : students[x].module_code = ModuleCode(m) } })

\* the pair is a lecture before the date of the run without a record before the run
EmptyPastLecture(run, m, d) ==
    /\ Lecture(m, d) \in lecture_schedules
    /\ d < run.date
    /\ RowsOfPair(run.before, m, d) = EmptyBag

\* C25: a run of backfill_missed_attendance gives every (module, date) of a past
\* lecture without any record exactly one absent row stamped 17:00:00 on the
\* date for every student enrolled in the module, and leaves the rows of every
\* other (module, date) as they were
C25_OnlyEmptyPastLectures ==
    \A k \in DOMAIN backfill_log :
        LET run == backfill_log[k]
        IN  \A m \in ModuleIds : \A d \in DatesOfRun(run) :
                RowsOfPair(run.after, m, d) =
                    IF EmptyPastLecture(run, m, d) THEN OneAbsentEach(m, d)
                    ELSE RowsOfPair(run.before, m, d)

\* a run on day 1 found the lecture of module 2 on day 0 without a record and
\* gave s2 an absent row, and left the lecture of module 1 on day 0, for which
\* s1 was marked present, with that one row
C25_OneFilledOneLeft ==
    /\ backfill_log # <<>>
    /\ LET run == backfill_log[Len(backfill_log)]
       IN  /\ run.date = 1
           /\ EmptyPastLecture(run, 2, 0)
           /\ "s2" \in EnrolledIn(2)
           /\ BagCardinality(RowsOfPair(run.after, 2, 0)) = 1
           /\ Lecture(1, 0) \in lecture_schedules
           /\ BagCardinality(RowsOfPair(run.before, 1, 0)) = 1
           /\ RowsOfPair(run.after, 1, 0) = RowsOfPair(run.before, 1, 0)

----------------------------------------------------------------------------
(* C26 *)

\* the student has a row for the module stamped on the date
HasRowOn(records, student_id, m, d) ==
    \E x \in BagToSet(records) :
        x.student_id = student_id /\ x.module_id = m /\ DateOf(x.created_at) = d

\* the students of the module and its lectures before the date of the run
PairsOfRun(run) ==
    { x \in DOMAIN students : students[x].module_code = ModuleCode(run.module_id) } \X
    { l.lecture_date : l \in { x \in lecture_schedules :
          x.module_id = run.module_id /\ x.lecture_date < run.date } }

\* C26: after backfill-all-students answered 200, every student enrolled in the
\* module of the caller has a record for every past lecture date of the module;
\* the call added one absent row for each pair that had no record and nothing
\* else, and a second call on the data the first one left adds no row
C26_EveryPairCovered ==
    /\ \A k \in DOMAIN catchup_call.runs :
           LET run == catchup_call.runs[k]
               missing == { pair \in PairsOfRun(run) :
                                ~ HasRowOn(run.before, pair[1], run.module_id, pair[2]) }
           IN  run.status = 200 =>
                   /\ \A pair \in PairsOfRun(run) :
                          HasRowOn(run.after, pair[1], run.module_id, pair[2])
                   /\ run.after = run.before (+) SetToBag(
                          { [student_id |-> pair[1], module_id |-> run.module_id,
                             status |-> "absent",
                             created_at |-> Combine(pair[2], 17 * 3600)] :
                            pair \in missing })
                   /\ run.backfill_count = Cardinality(missing)
    /\ ( /\ Len(catchup_call.runs) = 2
         /\ catchup_call.runs[1].status = 200
         /\ catchup_call.runs[2].status = 200
         /\ catchup_call.runs[2].module_id = catchup_call.runs[1].module_id
         /\ catchup_call.runs[2].date = catchup_call.runs[1].date
         /\ catchup_call.runs[2].before = catchup_call.runs[1].after ) =>
             /\ catchup_call.runs[2].after = catchup_call.runs[2].before
             /\ catchup_call.runs[2].backfill_count = 0

\* two calls in a row by the lecturer of module 1 on day 1: s1 was marked
\* present on day 0, the first call gave s2 alone an absent row for day 0, the
\* second added nothing
C26_LateStudentCaughtUp ==
    /\ Len(catchup_call.runs) = 2
    /\ catchup_call.runs[1].status = 200
    /\ catchup_call.runs[1].module_id = 1
    /\ catchup_call.runs[1].date = 1
    /\ HasRowOn(catchup_call.runs[1].before, "s1", 1, 0)
    /\ ~ HasRowOn(catchup_call.runs[1].before, "s2", 1, 0)
    /\ catchup_call.runs[1].backfill_count = 1
    /\ HasRowOn(catchup_call.runs[1].after, "s2", 1, 0)
    /\ catchup_call.runs[2].status = 200
    /\ catchup_call.runs[2].before = catchup_call.runs[1].after
    /\ catchup_call.runs[2].backfill_count = 0

----------------------------------------------------------------------------
(* C27 *)

\* the highest of 21, 18 and 16 that is at most the count, as a set: empty when
\* the count is below 16
HighestMet(total) ==
    LET met == { t \in {16, 18, 21} : t <= total }
    IN  IF met = {} THEN {} ELSE { CHOOSE t \in met : \A u \in met : u <= t }

\* C27: in one run-at-risk-check call every enrolled student is sent at most one
\* warning, the one for the highest of 21, 18 and 16 that is at most the absence
\* count of the student and none below 16; the call leaves the ledger as it was
\* and sends whatever the ledger and the outbox already hold
C27_HighestThresholdOnly ==
    [][ (check_call' # check_call /\ check_call'.status = 200) =>
            /\ \A x \in DOMAIN check_call'.mailed :
                   /\ Cardinality(check_call'.mailed[x]) <= 1
                   /\ check_call'.mailed[x] =
                          IF check_call'.relay[x] = "sent"
                          THEN HighestMet(check_call'.totals[x]) ELSE {}
            /\ outbox' = outbox (+) SetToBag(
                   { [to |-> p[1], kind |-> "risk_check",
                      ref |-> <<check_call'.module_id, p[2]>>] :
                     p \in { q \in (DOMAIN check_call'.mailed) \X {16, 18, 21} :
                                 q[2] \in check_call'.mailed[q[1]] } })
            /\ at_risk_warnings' = at_risk_warnings ]_vars

\* s1 has 18 absences and the ledger holds warnings of 16 and 18 for s1; two
\* calls were made and the relay has accepted the warning of 18 twice, and none
\* of 16
C27_SentAgain ==
    /\ check_call.count = 2
    /\ check_call.status = 200
    /\ check_call.totals["s1"] = 18
    /\ check_call.mailed["s1"] = {18}
    /\ ExistingWarning(check_call.ledger_before, "s1", 1, 18) # EmptyBag
    /\ CopiesIn(CheckEmail("s1", 1, 18), check_call.outbox_before) = 1
    /\ CopiesIn(CheckEmail("s1", 1, 18), outbox) = 2
    /\ CopiesIn(CheckEmail("s1", 1, 16), outbox) = 0

----------------------------------------------------------------------------
(* C28 *)

\* no session of the weekday of the instant has its attendance window open
NoWindowOpen(t) ==
    \A i \in DOMAIN class_timetable :
        class_timetable[i].day_of_week = Weekday(t) + 1 =>
            ~ ( /\ class_timetable[i].start_time <= TimeOf(t)
                /\ TimeOf(t) <= TimeOf(Combine(DateOf(t), class_timetable[i].start_time)
                                       + 30 * 60) )

\* the request r is received in this step
Received(r) == req[r].pc = "idle" /\ req'[r].pc # "idle"

\* C28: a mark-attendance request received while no attendance window is open is
\* answered 403 whatever it carries, and one received in an open window without
\* an image payload is answered 400; neither inserts an attendance record
C28_ForbiddenThenBadRequest ==
    [][ \A r \in 1..MaxReq :
          Received(r) =>
              /\ NoWindowOpen(now) =>
                     /\ req'[r].pc = "done"
                     /\ req'[r].status = 403
                     /\ attendance_records' = attendance_records
              /\ (~ NoWindowOpen(now) /\ req'[r].image = "missing") =>
                     /\ req'[r].pc = "done"
                     /\ req'[r].status = 400
                     /\ attendance_records' = attendance_records ]_vars

\* a request without an image payload was answered 403 outside the window, the
\* next one 400 inside it, and no record was inserted
C28_ClosedThenOpen ==
    /\ req[1].pc = "done"
    /\ req[1].image = "missing"
    /\ ~ req[1].window_open
    /\ req[1].status = 403
    /\ req[2].pc = "done"
    /\ req[2].image = "missing"
    /\ req[2].window_open
    /\ req[2].status = 400
    /\ attendance_records = EmptyBag

----------------------------------------------------------------------------
(* C29 *)

\* the request r is received in this step in an open window with this capture
ReceivedWith(r, image) ==
    Received(r) /\ ~ NoWindowOpen(now) /\ req'[r].image = image

\* the request r is answered in this step with the status and no record is inserted
AnsweredWithout(r, status) ==
    /\ req'[r].pc = "done"
    /\ req'[r].status = status
    /\ attendance_records' = attendance_records

\* C29: in an open window, a request whose capture yields no embedding is
\* answered 404, and one whose embedding matches no student is answered 404;
\* neither inserts an attendance record
C29_NoFaceNotFound ==
    [][ \A r \in 1..MaxReq :
          /\ ReceivedWith(r, "noface") => AnsweredWithout(r, 404)
          /\ ReceivedWith(r, "stranger") => AnsweredWithout(r, 404) ]_vars

\* C29 as amended: in an open window, a request whose capture yields no
\* embedding is answered 400, and one whose embedding matches no student is
\* answered 404; neither inserts an attendance record
C29_NoFaceBadRequest ==
    [][ \A r \in 1..MaxReq :
          /\ ReceivedWith(r, "noface") => AnsweredWithout(r, 400)
          /\ ReceivedWith(r, "stranger") => AnsweredWithout(r, 404) ]_vars

\* in an open window a capture without a face was answered 400 and a capture
\* of a stranger 404; no record was inserted
C29_NoFaceThenStranger ==
    /\ req[1].pc = "done"
    /\ req[1].image = "noface"
    /\ req[1].window_open
    /\ req[1].status = 400
    /\ req[2].pc = "done"
    /\ req[2].image = "stranger"
    /\ req[2].window_open
    /\ req[2].status = 404
    /\ attendance_records = EmptyBag

----------------------------------------------------------------------------
(* C30 *)

\* C30: whenever create-campaign has answered 201, the status of the campaign
\* is Sent: no campaign is left in Sending once the request has finished
C30_SentAfterCreated ==
    (create_call.made /\ create_call.status = 201) =>
        campaigns[create_call.campaign_id].status = "Sent"

\* a request that answered 201 left its campaign in Sending or in Sent, and one
\* that answered 500 after the insert of the campaign row left it in Failed
C30_CreatedSendingOrSent ==
    create_call.made =>
        /\ create_call.status = 201 =>
               campaigns[create_call.campaign_id].status \in {"Sending", "Sent"}
        /\ (create_call.status = 500 /\ create_call.campaign_id # 0) =>
               campaigns[create_call.campaign_id].status = "Failed"

\* no student has the module code of campaigns and no store call raised:
\* send_campaign_emails returned before the update of the status, the request
\* answered 201 and the campaign is left in Sending
C30_SendingWithoutStudents ==
    /\ create_call.made
    /\ create_call.fault = NoFault
    /\ create_call.status = 201
    /\ TargetStudents = {}
    /\ campaigns[create_call.campaign_id].status = "Sending"
    /\ outbox = EmptyBag

----------------------------------------------------------------------------
(* Claims about the two inserts of submit-campaign-response *)

\* submit-campaign-response requests in threads, whose inserts can raise, and
\* fetches with the same links, while the host clock runs
SubmitTokens == { Token(1, "s1", 0, TRUE), NoToken }
SubmitResponses == { <<>>, K1 :> "B", Kq :> "B" }

NextSubmit ==
    \/ \E r \in 1..MaxSubmits, token \in SubmitTokens, responses \in SubmitResponses :
           SubmitBegin(r, token, responses)
    \/ \E r \in 1..MaxSubmits, outcome \in InsertOutcomes : SubmitParticipant(r, outcome)
    \/ \E r \in 1..MaxSubmits, outcome \in InsertOutcomes : SubmitResponse(r, outcome)
    \/ \E token \in SubmitTokens :
           api_get_campaign_for_student(token) /\ UNCHANGED submitting
    \/ AdvanceRealTime /\ UNCHANGED submitting

SpecSubmit == InitCampaign /\ [][NextSubmit]_vars

\* a participant row of the campaign and the student is stored
ParticipantStored(c, s) ==
    \E x \in BagToSet(campaign_participants) : x.campaign_id = c /\ x.student_id = s

\* the pair of campaign and student a link names
PairOf(token) == <<token.campaign_id, token.student_id>>

\* C31 as stated: every response row has a participant row, the participant
\* row of a failed response insert stays, and every later submit with that
\* token is answered 409.
C31_LaterSubmitConflict ==
    /\ \A x \in BagToSet(campaign_responses) : ParticipantStored(x.campaign_id, x.student_id)
    /\ \A pair \in stranded : ParticipantStored(pair[1], pair[2])
    /\ \A r \in 1..MaxSubmits :
           (submit_req[r].pc # "idle" /\ submit_req[r].after_stranded)
               => (submit_req[r].pc = "done" /\ submit_req[r].status = 409)

\* C31, amended: every response row has a participant row; the participant
\* row of a response insert that raised stays; every later submit with that
\* token that carries responses while the token decodes is answered 409, one
\* without responses 400, one whose token no longer decodes 500; every later
\* fetch with that token is answered 409 while the token decodes and 400
\* after that; none of them writes a row.
C31_StrandedParticipant ==
    /\ [](\A x \in BagToSet(campaign_responses) :
              ParticipantStored(x.campaign_id, x.student_id))
    /\ [](\A pair \in stranded : ParticipantStored(pair[1], pair[2]))
    /\ [](\A r \in 1..MaxSubmits :
              (submit_req[r].pc # "idle" /\ submit_req[r].after_stranded)
                  => /\ submit_req[r].pc = "done"
                     /\ submit_req[r].status =
                            IF submit_req[r].responses = <<>> THEN 400
                            ELSE IF submit_req[r].fresh THEN 409 ELSE 500)
    /\ [][\A token \in SubmitTokens \ {NoToken} :
              (api_get_campaign_for_student(token) /\ PairOf(token) \in stranded)
                  => /\ campaign_call'.status =
                            IF loads(token, real_time) = "ok" THEN 409 ELSE 400
                     /\ campaign_participants' = campaign_participants
                     /\ campaign_responses' = campaign_responses]_vars

\* a response insert raised after the participant row was stored, and a later
\* submit with the same link and with responses was answered 409
C31_RefusedAfterFailure ==
    \E r, q \in 1..MaxSubmits :
        /\ submit_req[r].pc = "done" /\ submit_req[r].status = 500
        /\ PairOf(submit_req[r].token) \in stranded
        /\ ~submit_req[r].after_stranded
        /\ submit_req[q].pc = "done" /\ submit_req[q].status = 409
        /\ submit_req[q].after_stranded
        /\ submit_req[q].token = submit_req[r].token
        /\ ~ \E x \in BagToSet(campaign_responses) :
               PairOf(x) = PairOf(submit_req[r].token)

----------------------------------------------------------------------------
(* Claims about concurrent submits with one link *)

\* C33: in every reachable state, interleaved submit-campaign-response
\* requests with the same token included, there is at most one participant
\* row and at most one response row per (campaign, student).
C33_AtMostOneRowEach ==
    \A c \in DOMAIN campaigns, s \in StudentIds :
        /\ BagCardinality(RowsWhere(campaign_participants,
               LAMBDA x : x.campaign_id = c /\ x.student_id = s)) <= 1
        /\ BagCardinality(RowsWhere(campaign_responses,
               LAMBDA x : x.campaign_id = c /\ x.student_id = s)) <= 1

----------------------------------------------------------------------------
(* Claims about the status of an apology *)

\* the statuses a decision request names: the three of the table, another
\* word, and none
DecisionStatuses == {"Pending", "Approved", "Rejected", "Escalated", ""}

\* the headers of the requests to the routes of the apologies
ApologyHeaders == LecturerHeaders \cup {BearerStudent, NoHeader}

\* students submit apologies and requests with a bearer decide on them
NextApology ==
    \/ \E has_file \in BOOLEAN, filename \in {NoFilename, PdfFilename} :
           api_handle_apology_submission(BearerStudent, has_file, filename)
    \/ \E auth_header \in ApologyHeaders : api_get_apologies(auth_header)
    \/ \E auth_header \in ApologyHeaders, submission_id \in 0..MaxApologies,
          new_status \in DecisionStatuses, reason \in {"", "r"} :
           api_update_apology_status(auth_header, submission_id, new_status, reason)

SpecApology == InitLecturer /\ [][NextApology]_vars

\* C32: in every reachable state the status of every apology is one of
\* Pending, Approved, Rejected.
C32_StatusOfThree ==
    \A i \in DOMAIN apology_submissions :
        apology_submissions[i].status \in {"Pending", "Approved", "Rejected"}

----------------------------------------------------------------------------
(* Claims about repeated draws *)

\* the vouchers of a campaign
VouchersOf(c) == RowsWhere(vouchers, LAMBDA v : v.campaign_id = c)

\* C34: over any sequence of pick-winners requests on one campaign, the
\* campaign has no more vouchers than its incentive names winners, and no
\* student holds more than one voucher of the campaign.
C34_VouchersWithinCount ==
    \A c \in DOMAIN campaigns :
        /\ BagCardinality(VouchersOf(c)) <= C9_NamedCount[campaigns[c].incentive]
        /\ \A s \in DOMAIN students :
               BagCardinality(RowsWhere(VouchersOf(c), LAMBDA v : v.student_id = s)) <= 1

----------------------------------------------------------------------------
(* Claims about the catch-up notices of a day with several sessions *)

\* on the Monday one module meets at 09:00 and at 11:00, or module 1 meets at
\* 09:00 and module 2 at 11:00
NoticeTimetables ==
    { <<Session(1, 1, 1, T0900, T0900 + 3600),
        Session(2, 1, 1, T0900 + 2 * 3600, T0900 + 3 * 3600)>>,
      <<Session(1, 1, 1, T0900, T0900 + 3600),
        Session(2, 2, 1, T0900 + 2 * 3600, T0900 + 3 * 3600)>> }

\* the first class of the Monday is about to begin; the lectures of the day
\* are scheduled or not, and s1 has been marked present or nobody has
InitNotice ==
    /\ now = Combine(0, T0900)
    /\ class_timetable \in NoticeTimetables
    /\ students \in EnrolmentChoices
    /\ lecture_schedules \in SUBSET {Lecture(1, 0), Lecture(2, 0)}
    /\ attendance_records \in
           { EmptyBag,
             SetToBag({ [student_id |-> "s1", module_id |-> 1, status |-> "present",
                         created_at |-> Combine(0, T0900)] }) }
    /\ InitIdle
    /\ InitNoCampaign

\* the scheduler ticks while the clock runs
NextNotice == unified_scheduler_job \/ AdvanceClock

SpecNotice == InitNotice /\ [][NextNotice]_vars

\* C35: over a day in which several sessions end and are swept, a student gets
\* at most one catch-up notice per (module, date).
C35_OneNoticePerDay ==
    \A e \in BagToSet(outbox) : e.kind = "catch_up" => outbox[e] <= 1

----------------------------------------------------------------------------
(* Claims about a request that meets the sweep *)

\* on the Monday module 1 meets from 09:00 to 10:00 and again from 10:00 to
\* 11:00, or once from 09:50 to 10:00: at 10:01 a class has just ended while
\* an attendance window is open
MeetingTimetables ==
    { <<Session(1, 1, 1, T0900, T0900 + 3600),
        Session(2, 1, 1, T0900 + 3600, T0900 + 2 * 3600)>>,
      <<Session(1, 1, 1, T0900 + 3000, T0900 + 3600)>> }

InitMeeting ==
    /\ now = Combine(0, T0900)
    /\ class_timetable \in MeetingTimetables
    /\ students = Enrolment
    /\ lecture_schedules \in { {}, {Lecture(1, 0)} }
    /\ attendance_records = EmptyBag
    /\ InitIdle
    /\ InitNoCampaign

\* requests in threads, the scheduler in a thread of its own, under a running
\* clock
NextMeeting ==
    \/ api_mark_attendance
    \/ unified_scheduler_job
    \/ AdvanceClock

SpecMeeting == InitMeeting /\ [][NextMeeting]_vars

\* the rows of a status of one student for one module stamped on one day
RowsOfStatus(s, m, d, status) ==
    RowsWhere(attendance_records,
        LAMBDA x : /\ x.student_id = s /\ x.module_id = m
                   /\ x.status = status /\ DateOf(x.created_at) = d)

\* C36: in every reachable state, a mark-attendance request interleaved with
\* a tick that sweeps the same module included, no student has both a present
\* and an absent row for one module on one simulated day.
C36_NeverPresentAndAbsent ==
    \A s \in StudentIds, m \in ModuleIds, d \in 0..(MaxDay + 1) :
        ~ ( /\ RowsOfStatus(s, m, d, "present") # EmptyBag
            /\ RowsOfStatus(s, m, d, "absent") # EmptyBag )

----------------------------------------------------------------------------
(* Claims about marking after the simulated clock was set back *)

\* the Monday of the first week, during the attendance window
FirstMonday == Combine(0, T0900 + 60)

\* an operator posts the first Monday as the simulated start with the
\* override on: get_system_time returns that instant from then on
SetClockBack ==
    /\ now > FirstMonday
    /\ now' = FirstMonday
    /\ UNCHANGED <<tables, attendance_records, marking, outsideAttendance>>

\* the class of the Monday of the second week is about to begin
InitRewind ==
    /\ now = Combine(7, T0900)
    /\ class_timetable = <<Session(1, 1, 1, T0900, T0900 + 3600)>>
    /\ students = Enrolment
    /\ lecture_schedules = {}
    /\ attendance_records = EmptyBag
    /\ InitIdle
    /\ InitNoCampaign

\* requests in threads, and the operator who sets the clock back
NextRewind == api_mark_attendance \/ SetClockBack

SpecRewind == InitRewind /\ [][NextRewind]_vars

\* C37: a recognized student without a record for the module of the open
\* session on the current simulated day is answered 200 and a present row is
\* inserted, also when rows of the student for the module are stamped on
\* later days.
C37_AcceptedWithoutRecordToday ==
    \A r \in 1..MaxReq :
        (req[r].pc = "done" /\ req[r].checked /\ ~ req[r].had_record)
            => (req[r].status = 200 /\ req[r].inserted = 1)

----------------------------------------------------------------------------
(* Claims about a read of the settings that fails *)

\* C38: with the override on at simulated start S set at host time R0 and the
\* settings row unchanged, a call of get_system_time whose read of the row
\* fails returns the time of the host, and a call at R0 + d whose read
\* succeeds after an earlier one failed returns S + d again.
C38_EpochKeptAfterFailure ==
    /\ (SetThenRead /\ time_call.fetch = "failed") => time_call.returned = time_call.at
    /\ (SetThenRead /\ time_call.fetch = "ok" /\ time_call.failed_since_set) =>
           time_call.returned = time_set.simulated_datetime + (time_call.at - time_set.at)

----------------------------------------------------------------------------
(* Claims about the warnings of a student whose absences come in batches *)

\* the Monday of the fourth week, three weeks after day 0
FourthMonday == 3 * 7

\* how many absences s1 has when the process starts
AbsencesAtStart == thresholds[1] - 1

\* the instants of the fourth Monday: the start of the class, a minute after
\* its end, and the evening
PathTimes == { Combine(FourthMonday, tod) : tod \in {T0900, T0900 + 3660, 17 * 3600} }

\* the simulated clock moves on to the next of these instants
AdvancePathClock ==
    /\ LET later == { t \in PathTimes : t > now }
       IN  /\ later # {}
           /\ now' = CHOOSE t \in later : \A u \in later : t <= u
    /\ UNCHANGED <<tables, attendance_records, marking, outsideAttendance>>

\* s1 was absent from the first fifteen lectures of module 1; the lectures of
\* the two days after them passed while the process was down, and the class
\* of the fourth Monday is about to begin
InitPaths ==
    /\ now = Combine(FourthMonday, T0900)
    /\ class_timetable = <<Session(1, 1, 1, T0900, T0900 + 3600)>>
    /\ students = Enrolment
    /\ lecture_schedules = { Lecture(1, AbsencesAtStart), Lecture(1, AbsencesAtStart + 1) }
    /\ attendance_records = SetToBag(
           { [student_id |-> "s1", module_id |-> 1, status |-> "absent",
              created_at |-> Combine(k, 17 * 3600)] : k \in 0..(AbsencesAtStart - 1) })
    /\ InitIdle
    /\ InitNoCampaign

\* the process starts and runs its backfill, the lecturer asks for the bulk
\* backfill, the scheduler ticks, and the clock runs
NextPaths ==
    \/ Restart(Combine(FourthMonday, T0900))
    \/ \E auth_header \in {BearerGood, BearerBad} : api_backfill_all_students(auth_header, 404)
    \/ unified_scheduler_job
    \/ AdvancePathClock

SpecPaths == InitPaths /\ [][NextPaths]_vars

\* the warning of a level was accepted by the relay for the student
Warned(s, m, level) == BagIn(WarningEmail(s, m, level), outbox)

\* the day is over: the process was started, the scheduler has swept the class
\* of the day, the clock shows the evening and the scheduler has ticked since
DayOver ==
    /\ job_runs.starts > 0
    /\ <<FourthMonday, 1>> \in last_run_times.absentee_check
    /\ now = Combine(FourthMonday, 17 * 3600)
    /\ job_runs.at = now

\* C39: whichever path inserts the absent rows, a student whose absences in a
\* module reach or pass 16, 18 or 21 is sent the warning of each level reached,
\* at the latest when the day is over, and the ledger holds a row only for a
\* level whose email was sent.
C39_EveryLevelWarned ==
    /\ DayOver =>
           \A s \in StudentIds, level \in Levels :
               AbsenceCount(s, ModuleOf(s)) >= level => Warned(s, ModuleOf(s), level)
    /\ \A row \in BagToSet(at_risk_warnings) :
           Warned(row.student_id, row.module_id, row.warning_level)

\* what the code keeps of it: the ledger holds a row only for a level whose
\* email was sent, and once the absences of a student have passed a level
\* without its warning, no step sends that warning
C39_PassedLevelNeverWarned ==
    /\ [](\A row \in BagToSet(at_risk_warnings) :
              Warned(row.student_id, row.module_id, row.warning_level))
    /\ [][\A s \in StudentIds, level \in Levels :
              (AbsenceCount(s, ModuleOf(s)) > level /\ ~ Warned(s, ModuleOf(s), level))
                  => ~ Warned(s, ModuleOf(s), level)']_vars

\* the day is over, the backfill took s1 past 16 absences in one step, the
\* warning of level 18 was sent and the one of level 16 was not
C39_SixteenSkipped ==
    /\ DayOver
    /\ AbsenceCount("s1", 1) > thresholds[1]
    /\ ~ Warned("s1", 1, thresholds[1])
    /\ Warned("s1", 1, thresholds[2])

====
